---- MODULE Spec2Model ----
(***************************************************************************)
(* A model of the binary event-feed decoder of src/deserializer.py.        *)
(*                                                                         *)
(* A byte buffer is a sequence of integers 0..255.  A cursor position is   *)
(* the 0-based offset io.BytesIO.tell() returns.  Python values are        *)
(* tagged tuples:                                                          *)
(*     <<"none">>             None                                         *)
(*     <<"int", n>>           an int                                       *)
(*     <<"str", cps>>         a str, as its sequence of code points        *)
(*     <<"bytes", bs>>        a bytes object                               *)
(*     <<"list", items>>      a list                                       *)
(*     <<"dict", items>>      a dict, as its insertion-ordered sequence of *)
(*                            <<key, value>> pairs (keys are code point    *)
(*                            sequences)                                   *)
(* Every parsing operator returns a record with the value, the cursor      *)
(* position it leaves, and exc, the exception that escaped it ("none"      *)
(* when it returned normally).                                             *)
(*                                                                         *)
(* An operator binds an argument it uses more than once, or the result of  *)
(* a call it reads more than once, with  One({ ... : x \in {e} }): the     *)
(* value of e is computed once and x names it.                             *)
(***************************************************************************)
EXTENDS Integers, Sequences, FiniteSets, TLC

VARIABLES
    stream,     \* the io.BytesIO objects: id -> [data, pos]
    self,       \* the Deserializer instances: i -> [stream, last_field_name]
    objects,    \* i -> the local list `objects` of deserialize()
    pc,         \* i -> "loop" | "done" | "raised", or "call" | "returned" |
                \* "raised" when a single method is called on the instance
    exc,        \* i -> the exception that escaped deserialize(), or "none"
    input,      \* i -> how the instance's buffer was put together (history)
    trace,      \* i -> what the last generic object parse did (history)
    ret         \* i -> what the method called on the instance returned

vars == <<stream, self, objects, pc, exc, input, trace, ret>>

----------------------------------------------------------------------------
(* Small helpers on sequences.                                             *)

Min(a, b) == IF a < b THEN a ELSE b

One(S) == CHOOSE v \in S : TRUE

RECURSIVE Concat(_)
Concat(ss) == IF ss = <<>> THEN <<>> ELSE Head(ss) \o Concat(Tail(ss))

PyNone == <<"none">>
PyInt(n) == <<"int", n>>
PyStr(s) == <<"str", s>>
PyBytes(b) == <<"bytes", b>>
PyDict(items) == <<"dict", items>>
PyList(items) == <<"list", items>>

\* A test for None only (`if last_field_in_scope is not None`).
NotNone(v) == v[1] # "none"

\* Python truthiness of None / str / int values (`if last_field_in_scope`).
Truthy(v) ==
    CASE v[1] = "none" -> FALSE
      [] v[1] = "str" -> v[2] # <<>>
      [] v[1] = "int" -> v[2] # 0
      [] OTHER -> v[2] # <<>>

----------------------------------------------------------------------------
(* io.BytesIO.read(n) at position pos: the bytes returned, and the         *)
(* position after the read.  A read past the end returns what is left.     *)

ReadBytes(buf, pos, n) == SubSeq(buf, pos + 1, Min(pos + n, Len(buf)))
ReadPos(buf, pos, n) == Min(pos + n, Len(buf))
AtEnd(buf, pos) == pos >= Len(buf)

----------------------------------------------------------------------------
(* bytes.decode('utf-8', errors).  Utf8Need is the length of the sequence  *)
(* a lead byte announces (0: not a lead byte); Utf8SecondOk is the range   *)
(* of the byte after the lead.  Utf8Bad(bs, i) is 0 when a well-formed     *)
(* sequence starts at i, and otherwise the number of bytes the decoder     *)
(* reports as undecodable there (CPython: the maximal valid prefix of the  *)
(* sequence, at least one byte).                                           *)

Utf8Need(b) ==
    CASE b < 128 -> 1
      [] b >= 194 /\ b <= 223 -> 2
      [] b >= 224 /\ b <= 239 -> 3
      [] b >= 240 /\ b <= 244 -> 4
      [] OTHER -> 0

Utf8SecondOk(lead, b) ==
    CASE lead = 224 -> b >= 160 /\ b <= 191
      [] lead = 237 -> b >= 128 /\ b <= 159
      [] lead = 240 -> b >= 144 /\ b <= 191
      [] lead = 244 -> b >= 128 /\ b <= 143
      [] OTHER -> b >= 128 /\ b <= 191

Utf8ContOk(bs, i, k) ==
    IF k = 1 THEN Utf8SecondOk(bs[i], bs[i + 1])
    ELSE bs[i + k] >= 128 /\ bs[i + k] <= 191

Utf8Bad(bs, i) ==
    One({ IF need = 0 THEN 1
          ELSE One({ IF bad # {} THEN CHOOSE k \in bad : \A m \in bad : k <= m
                     ELSE IF have < need THEN have
                     ELSE 0 :
                     bad \in {{k \in 1..(have - 1) : ~Utf8ContOk(bs, i, k)}} }) :
          need \in {Utf8Need(bs[i])},
          have \in {Min(Utf8Need(bs[i]), Len(bs) - i + 1)} })

Utf8CodePoint(bs, i) ==
    CASE bs[i] < 128 -> bs[i]
      [] bs[i] < 224 -> (bs[i] - 192) * 64 + (bs[i + 1] - 128)
      [] bs[i] < 240 -> (bs[i] - 224) * 4096 + (bs[i + 1] - 128) * 64
                        + (bs[i + 2] - 128)
      [] OTHER -> (bs[i] - 240) * 262144 + (bs[i + 1] - 128) * 4096
                  + (bs[i + 2] - 128) * 64 + (bs[i + 3] - 128)

\* The offsets at which a well-formed sequence starts.  A byte that is not
\* a continuation byte always starts a unit of the decoder, a continuation
\* byte never starts a well-formed one, so these are the units that decode.
Utf8Starts(bs) == {i \in 1..Len(bs) : bs[i] < 128 \/ Utf8Bad(bs, i) = 0}

\* The elements of a set of numbers in ascending order.
Ascending(S) ==
    IF S = 1..Cardinality(S) THEN [k \in 1..Cardinality(S) |-> k]
    ELSE [k \in 1..Cardinality(S) |->
             CHOOSE i \in S : Cardinality({j \in S : j <= i}) = k]

\* decode('utf-8', 'ignore'): undecodable bytes are dropped.
DecodeIgnore(bytes) ==
    One({ One({ [k \in 1..Len(starts) |-> Utf8CodePoint(bs, starts[k])] :
                starts \in {Ascending(Utf8Starts(bs))} }) :
          bs \in {bytes} })

\* Every byte belongs to a well-formed sequence.
Utf8StrictOk(bs) ==
    \A i \in 1..Len(bs) :
        \/ bs[i] < 128
        \/ \E j \in Utf8Starts(bs) : j <= i /\ i < j + Utf8Need(bs[j])

\* decode('utf-8'): UnicodeDecodeError on the first undecodable byte.
DecodeStrict(bytes) ==
    One({ IF Utf8StrictOk(bs) THEN [exc |-> "none", s |-> DecodeIgnore(bs)]
          ELSE [exc |-> "UnicodeDecodeError", s |-> <<>>] :
          bs \in {bytes} })

----------------------------------------------------------------------------
(* str.strip() and int(str).  IsSpace is str.isspace() of one code point.  *)
(* int() accepts surrounding whitespace, one sign, and decimal digits with *)
(* single underscores between them; anything else is a ValueError.  Only   *)
(* the ASCII digits are modelled as digits: the decimal digits of other    *)
(* scripts need multi-byte sequences that no modelled input contains.      *)

IsSpace(c) ==
    \/ c \in {9, 10, 11, 12, 13, 28, 29, 30, 31, 32, 133, 160, 5760}
    \/ c >= 8192 /\ c <= 8202
    \/ c \in {8232, 8233, 8239, 8287, 12288}

IsDigit(c) == c >= 48 /\ c <= 57

\* The offsets of the code points that are not whitespace.
Inked(s) == {k \in 1..Len(s) : ~IsSpace(s[k])}

Strip(str) ==
    One({ One({ IF ink = {} THEN <<>>
                ELSE SubSeq(s, CHOOSE k \in ink : \A m \in ink : k <= m,
                               CHOOSE k \in ink : \A m \in ink : k >= m) :
                ink \in {Inked(s)} }) :
          s \in {str} })

RECURSIVE DigitsValue(_, _)
DigitsValue(str, sofar) ==
    One({ IF s = <<>> THEN acc
          ELSE IF Head(s) = 95 THEN DigitsValue(Tail(s), acc)
          ELSE DigitsValue(Tail(s), acc * 10 + (Head(s) - 48)) :
          s \in {str}, acc \in {sofar} })

IntLiteralOk(d) ==
    /\ d # <<>>
    /\ \A k \in 1..Len(d) : IsDigit(d[k]) \/ d[k] = 95
    /\ IsDigit(d[1]) /\ IsDigit(d[Len(d)])
    /\ \A k \in 1..(Len(d) - 1) : ~(d[k] = 95 /\ d[k + 1] = 95)

\* int(s): [exc, n].
IntOfStr(s) ==
    One({ One({ IF IntLiteralOk(d)
                THEN [exc |-> "none",
                      n |-> IF Head(t) = 45 THEN 0 - DigitsValue(d, 0)
                            ELSE DigitsValue(d, 0)]
                ELSE [exc |-> "ValueError", n |-> 0] :
                d \in {IF t # <<>> /\ Head(t) \in {43, 45} THEN Tail(t) ELSE t} }) :
          t \in {Strip(s)} })

----------------------------------------------------------------------------
(* The value-decoding helpers.                                             *)

\* _decode_single_byte_value: the byte itself, except ':' which is 10.
DecodeSingleByteValue(b) == IF b = 58 THEN 10 ELSE b

\* int.from_bytes(byte_data, 'big'): the first byte is the most significant.
RECURSIVE BigEndian(_)
BigEndian(bytes) ==
    One({ IF bs = <<>> THEN 0
          ELSE bs[Len(bs)] + 256 * BigEndian(SubSeq(bs, 1, Len(bs) - 1)) :
          bs \in {bytes} })

\* int.from_bytes(byte_data, 'little')
RECURSIVE LittleEndian(_)
LittleEndian(bytes) ==
    One({ IF bs = <<>> THEN 0 ELSE Head(bs) + 256 * LittleEndian(Tail(bs)) :
          bs \in {bytes} })

\* _decode_multi_byte_value: None for no bytes, else int.from_bytes little.
DecodeMultiByteValue(bytes) ==
    One({ IF bs = <<>> THEN PyNone ELSE PyInt(LittleEndian(bs)) :
          bs \in {bytes} })

----------------------------------------------------------------------------
(* Deserializer._parse_value.                                              *)

\* The offset of the first byte at or after pos that is in stop, or the
\* end of the buffer: where the read-one-byte-and-seek-back loops stop.
ScanUntil(buf, pos, stop) ==
    One({ IF found = {} THEN Len(buf)
          ELSE (CHOOSE k \in found : \A m \in found : k <= m) - 1 :
          found \in {{k \in (pos + 1)..Len(buf) : buf[k] \in stop}} })

StringStops == {0, 1, 2, 12, 8, 9}

\* `int(val_str)` without the default for the empty run, as parse_value of
\* src/event_parser.py has it.
IntValueNoDefault(val_str, e) ==
    One({ [val |-> PyInt(n.n), pos |-> e, exc |-> n.exc] :
          n \in {IntOfStr(val_str)} })

\* The integer of a 0x81 / 0x82 value: `int(val_str) if val_str else 0`.
IntValue(val_str, e) ==
    One({ IF s = <<>> THEN [val |-> PyInt(0), pos |-> e, exc |-> "none"]
          ELSE One({ [val |-> PyInt(n.n), pos |-> e, exc |-> n.exc] :
                     n \in {IntOfStr(s)} }) :
          s \in {val_str} })

ParseValue(buf, at) ==
    One({ IF AtEnd(buf, pos) THEN [val |-> PyNone, pos |-> pos, exc |-> "none"]
          ELSE
          CASE buf[pos + 1] = 34 ->
                 [val |-> DecodeMultiByteValue(ReadBytes(buf, pos + 1, 3)),
                  pos |-> ReadPos(buf, pos + 1, 3), exc |-> "none"]
            [] buf[pos + 1] \in {138, 133} ->
                 One({ [val |-> PyStr(Strip(DecodeIgnore(SubSeq(buf, pos + 2, e)))),
                        pos |-> e, exc |-> "none"] :
                       e \in {ScanUntil(buf, pos + 1, StringStops)} })
            [] buf[pos + 1] \in {129, 130} ->
                 One({ IntValue(DecodeIgnore(SubSeq(buf, pos + 2, e)), e) :
                       e \in {ScanUntil(buf, pos + 1, {0})} })
            [] buf[pos + 1] = 32 ->
                 [val |-> IF AtEnd(buf, pos + 1) THEN PyInt(0)
                          ELSE PyInt(buf[pos + 2]),
                  pos |-> ReadPos(buf, pos + 1, 1), exc |-> "none"]
            [] buf[pos + 1] = 7 ->
                 [val |-> PyBytes(ReadBytes(buf, pos + 1, 6)),
                  pos |-> ReadPos(buf, pos + 1, 8), exc |-> "none"]
            [] OTHER -> [val |-> PyInt(buf[pos + 1]), pos |-> pos + 1,
                         exc |-> "none"] :
          pos \in {at} })

----------------------------------------------------------------------------
(* A Python dict: the sequence of its <<key, value>> items in insertion    *)
(* order.                                                                  *)

DictHas(d, k) == \E j \in 1..Len(d) : d[j][1] = k

\* An assignment that moves a key assigned again to the end.
DictSetMoveLast(dict, key, val) ==
    Append(SelectSeq(dict, LAMBDA it : it[1] # key), <<key, val>>)

\* An assignment that leaves a key assigned before as it is.
DictSetKeepFirst(dict, key, val) ==
    IF DictHas(dict, key) THEN dict ELSE Append(dict, <<key, val>>)

\* d[k] = v: a new key is appended, an existing key keeps its place.
DictSet(dict, key, val) ==
    One({ IF DictHas(d, k)
          THEN [j \in 1..Len(d) |-> IF d[j][1] = k THEN <<k, v>> ELSE d[j]]
          ELSE Append(d, <<k, v>>) :
          d \in {dict}, k \in {key}, v \in {val} })

\* d.get(k): the value, or None.
DictGet(d, k) ==
    IF DictHas(d, k) THEN (CHOOSE it \in {d[j] : j \in 1..Len(d)} : it[1] = k)[2]
    ELSE PyNone

----------------------------------------------------------------------------
(* Deserializer._parse_generic_object_dict.  ObjLoop is the state of its   *)
(* while loop: the cursor, the dict built so far and last_field_in_scope.  *)
(* log is a history of what the parser did, in stream order: one entry     *)
(* [op, at, name] per marker handled, at being the offset of the marker:   *)
(*   "open"    0x01, a nested object called name is entered                *)
(*   "close"   0x00 or the end of the buffer, the object is left           *)
(*   "field"   0x02, a value is stored under the declared name             *)
(*   "repeat"  0x0C, a value is stored under name, the name in scope       *)
(*   "skip"    0x0C with no name in scope, nothing is read or stored       *)
(*   "other"   any other byte, nothing is stored                           *)
(*   "raise"   an exception escaped while the marker was handled           *)

LogEntry(op, at, name) == [op |-> op, at |-> at, name |-> name]

\* A scope that outlives a frame: a name is in scope as soon as any earlier
\* byte of the buffer was a field marker.
EventScopeAmbient(buf, pos) ==
    IF \E k \in 1..pos : buf[k] = 2
    THEN PyStr(<<78, 117, 109, 98, 101, 114>>)
    ELSE PyNone

\* last_field_from_parent as _parse_event_object passes it for the body
\* that starts at pos: the default, whatever was decoded before.
EventScope(buf, pos) == PyNone

\* A parent that ignores what its child hands back.
ScopeKeepParent(last_field_in_scope, last_field_from_inner) ==
    last_field_in_scope

\* `if last_field_from_inner: last_field_in_scope = last_field_from_inner`
ScopeAfterChild(last_field_in_scope, last_field_from_inner) ==
    IF Truthy(last_field_from_inner) THEN last_field_from_inner
    ELSE last_field_in_scope

\* A child that starts with no name in scope.
ScopeForChildFresh(last_field_in_scope) == PyNone

\* `self._parse_generic_object_dict(last_field_in_scope)`: what a nested
\* object starts with.
ScopeForChild(last_field_in_scope) == last_field_in_scope

\* The key a 0x0C stores under.
RepeatKey(last_field_in_scope) == last_field_in_scope[2]

\* `if not marker_byte or marker_byte[0] == 0x00: break`
ObjectEnds(buf, pos) == AtEnd(buf, pos) \/ buf[pos + 1] = 0

ObjResult(obj, last, pos, e, log) ==
    [obj |-> obj, last |-> last, pos |-> pos, exc |-> e, log |-> log]

\* What one iteration of the loop leaves: the locals, and whether the loop
\* goes on (more) or the method returns or raises.
ObjStep(more, obj, last, pos, e, log) ==
    [more |-> more, obj |-> obj, last |-> last, pos |-> pos, exc |-> e,
     log |-> log]

RECURSIVE ObjLoop(_, _, _, _, _)

\* marker 0x01: a nested object, parsed with the scope of this level.
ObjChild(buf, pos, p, obj, last, log) ==
    One({ One({ IF inner.exc # "none"
                THEN ObjStep(FALSE, inner.obj, inner.last, inner.pos, inner.exc,
                             inner.log)
                ELSE ObjStep(TRUE, DictSet(obj, name, PyDict(inner.obj)),
                             ScopeAfterChild(last, inner.last), inner.pos,
                             "none", inner.log) :
                inner \in {ObjLoop(buf, ReadPos(buf, p + 1, buf[p + 1]), <<>>,
                                   ScopeForChild(last),
                                   Append(log, LogEntry("open", pos, name)))} }) :
          name \in {DecodeIgnore(ReadBytes(buf, p + 1, buf[p + 1]))} })

\* marker 0x02: a declared field.
ObjField(buf, pos, p, obj, last, log) ==
    One({ IF v.exc # "none"
          THEN ObjStep(FALSE, obj, PyStr(field_name), v.pos, v.exc,
                       Append(log, LogEntry("raise", pos, field_name)))
          ELSE ObjStep(TRUE, DictSet(obj, field_name, v.val),
                       PyStr(field_name), v.pos, "none",
                       Append(log, LogEntry("field", pos, field_name))) :
          field_name \in {DecodeIgnore(ReadBytes(buf, p + 1, buf[p + 1]))},
          v \in {ParseValue(buf, ReadPos(buf, p + 1, buf[p + 1]))} })

\* marker 0x0C with a name in scope: a value for that name.
ObjRepeat(buf, pos, p, obj, last, log) ==
    One({ IF v.exc # "none"
          THEN ObjStep(FALSE, obj, last, v.pos, v.exc,
                       Append(log, LogEntry("raise", pos, key)))
          ELSE ObjStep(TRUE, DictSet(obj, key, v.val), last, v.pos, "none",
                       Append(log, LogEntry("repeat", pos, key))) :
          v \in {ParseValue(buf, p)}, key \in {RepeatKey(last)} })

\* A 0x0C without a name in scope that still decodes the value after it
\* and drops it.
ObjSkipDecodes(buf, pos, p, obj, last, log) ==
    One({ ObjStep(v.exc = "none", obj, last, v.pos, v.exc,
                  Append(log, LogEntry("skip", pos, <<>>))) :
          v \in {ParseValue(buf, p)} })

\* marker 0x0C with no name in scope: `if last_field_in_scope:` fails and
\* nothing more is read.
ObjSkip(buf, pos, p, obj, last, log) ==
    ObjStep(TRUE, obj, last, p, "none", Append(log, LogEntry("skip", pos, <<>>)))

\* A byte that is no marker and makes the parser forget the name in scope.
ObjOtherForgetsName(buf, pos, p, obj, last, log) ==
    ObjStep(TRUE, obj, PyNone, p, "none",
            Append(log, LogEntry("other", pos, <<>>)))

\* any other marker byte: none of the branches of the if / elif chain is
\* taken, the byte read for `marker` is all that is consumed.
ObjOther(buf, pos, p, obj, last, log) ==
    ObjStep(TRUE, obj, last, p, "none", Append(log, LogEntry("other", pos, <<>>)))

\* One iteration of `while True:`, the cursor at `at`.
ObjIter(buf, at, dict, scope, history) ==
    One({ IF ObjectEnds(buf, pos)
          THEN ObjStep(FALSE, obj, last_field_in_scope, ReadPos(buf, pos, 1),
                       "none", Append(log, LogEntry("close", pos, <<>>)))
          ELSE
          CASE buf[pos + 1] \in {1, 2} /\ AtEnd(buf, pos + 1) ->
                 ObjStep(FALSE, obj, last_field_in_scope, pos + 1, "IndexError",
                         Append(log, LogEntry("raise", pos, <<>>)))
            [] buf[pos + 1] = 1 /\ ~AtEnd(buf, pos + 1) ->
                 ObjChild(buf, pos, pos + 1, obj, last_field_in_scope, log)
            [] buf[pos + 1] = 2 /\ ~AtEnd(buf, pos + 1) ->
                 ObjField(buf, pos, pos + 1, obj, last_field_in_scope, log)
            [] buf[pos + 1] = 12 /\ Truthy(last_field_in_scope) ->
                 ObjRepeat(buf, pos, pos + 1, obj, last_field_in_scope, log)
            [] buf[pos + 1] = 12 /\ ~Truthy(last_field_in_scope) ->
                 ObjSkip(buf, pos, pos + 1, obj, last_field_in_scope, log)
            [] OTHER ->
                 ObjOther(buf, pos, pos + 1, obj, last_field_in_scope, log) :
          pos \in {at}, obj \in {dict}, last_field_in_scope \in {scope},
          log \in {history} })

\* The loop: iterations until one of them ends it.
ObjLoop(buf, at, dict, scope, history) ==
    One({ IF st.more THEN ObjLoop(buf, st.pos, st.obj, st.last, st.log)
          ELSE ObjResult(st.obj, st.last, st.pos, st.exc, st.log) :
          st \in {ObjIter(buf, at, dict, scope, history)} })

ParseGenericObjectDict(buf, pos, last_field_from_parent) ==
    ObjLoop(buf, pos, <<>>, last_field_from_parent, <<>>)

----------------------------------------------------------------------------
(* The names the decoder compares with, as code point sequences.           *)

N_event == <<101, 118, 101, 110, 116>>
N_info == <<105, 110, 102, 111>>
N_Market == <<77, 97, 114, 107, 101, 116>>
N_Type == <<84, 121, 112, 101>>
N_Time == <<84, 105, 109, 101>>
N_Number == <<78, 117, 109, 98, 101, 114>>
N_Duration == <<68, 117, 114, 97, 116, 105, 111, 110>>
N_HasLevels == <<72, 97, 115, 76, 101, 118, 101, 108, 115>>
N_PreviousResults ==
    <<80, 114, 101, 118, 105, 111, 117, 115, 82, 101, 115, 117, 108, 116, 115>>
N_LastGames == <<76, 97, 115, 116, 71, 97, 109, 101, 115>>
N_Hot == <<72, 111, 116>>
N_Cold == <<67, 111, 108, 100>>
N_Hits == <<72, 105, 116, 115>>

----------------------------------------------------------------------------
(* Deserializer._parse_event_object.  event_dict["Market"].items() needs a *)
(* dict: any other value stored under "Market" is an AttributeError.       *)

Market(name, data) == [name |-> name, data |-> data]

MarketList(event_dict) ==
    IF DictHas(event_dict, N_Market)
    THEN One({ [j \in 1..Len(m) |-> Market(m[j][1], m[j][2])] :
               m \in {DictGet(event_dict, N_Market)[2]} })
    ELSE <<>>

\* An event that takes its id from the ID field of its body.
EventIdFromBody(id, d, market_list) ==
    [cls |-> "Event", id |-> DictGet(d, <<73, 68>>), type |-> DictGet(d, N_Type),
     time |-> DictGet(d, N_Time), number |-> DictGet(d, N_Number),
     duration |-> DictGet(d, N_Duration),
     has_levels |-> DictGet(d, N_HasLevels), markets |-> market_list]

Event(id, d, market_list) ==
    [cls |-> "Event", id |-> id, type |-> DictGet(d, N_Type),
     time |-> DictGet(d, N_Time), number |-> DictGet(d, N_Number),
     duration |-> DictGet(d, N_Duration),
     has_levels |-> DictGet(d, N_HasLevels), markets |-> market_list]

ParseEventObject(buf, pos, event_id) ==
    One({ IF r.exc # "none"
          THEN [val |-> PyNone, pos |-> r.pos, exc |-> r.exc, log |-> r.log]
          ELSE IF DictHas(r.obj, N_Market) /\ DictGet(r.obj, N_Market)[1] # "dict"
          THEN [val |-> PyNone, pos |-> r.pos, exc |-> "AttributeError",
                log |-> r.log]
          ELSE [val |-> Event(event_id, r.obj, MarketList(r.obj)),
                pos |-> r.pos, exc |-> "none", log |-> r.log] :
          r \in {ParseGenericObjectDict(buf, pos, EventScope(buf, pos))} })

----------------------------------------------------------------------------
(* The byte run the LastGames decoder reads for Draw: the bytes up to the  *)
(* next 0x00, which is consumed with them (or up to the end of buffer).    *)

RunBytes(buf, pos) == SubSeq(buf, pos + 1, ScanUntil(buf, pos, {0}))
RunEnd(buf, pos) == ReadPos(buf, ScanUntil(buf, pos, {0}), 1)

Game(name, number, draw) == [name |-> name, number |-> number, draw |-> draw]
HotColdItem(key, draw, hits) == [key |-> key, draw |-> draw, hits |-> hits]
HitsItem(key, hits) == [key |-> key, hits |-> hits]

\* What a list parser hands back: the list, the cursor, the exception.
ListResult(val, pos, e) == [val |-> val, pos |-> pos, exc |-> e]

\* A Draw kept as the bytes of the run are: no strip().
VerboseDrawRaw(run) ==
    One({ One({ IF n.exc = "none" THEN PyInt(n.n)
                ELSE IF val_str # <<>> THEN PyStr(val_str) ELSE PyInt(0) :
                n \in {IntOfStr(val_str)} }) :
          val_str \in {DecodeIgnore(run)} })

\* Draw of the first, verbose entry: int(val_str), else the string, else 0.
VerboseDraw(run) ==
    One({ One({ IF n.exc = "none" THEN PyInt(n.n)
                ELSE IF val_str # <<>> THEN PyStr(val_str) ELSE PyInt(0) :
                n \in {IntOfStr(val_str)} }) :
          val_str \in {Strip(DecodeIgnore(run))} })

\* Draw of a later, compact entry.
CompactDraw(run) ==
    One({ One({ IF bytes = <<>> THEN PyInt(0)
                ELSE IF n.exc = "none" THEN PyInt(n.n)
                ELSE IF Len(val_str) = 1
                THEN PyInt(DecodeSingleByteValue(val_str[1]))
                ELSE IF val_str # <<>> THEN PyStr(val_str) ELSE PyInt(0) :
                n \in {IntOfStr(val_str)} }) :
          bytes \in {run}, val_str \in {Strip(DecodeIgnore(run))} })

\* `read(1); fl = read(1)[0]; fn = read(fl).decode(...)`: a marker byte
\* that is not looked at, then a length-prefixed name.
SkipAndName(buf, pos) ==
    One({ IF AtEnd(buf, p) THEN [exc |-> "IndexError", name |-> <<>>, pos |-> p]
          ELSE [exc |-> "none",
                name |-> DecodeIgnore(ReadBytes(buf, p + 1, buf[p + 1])),
                pos |-> ReadPos(buf, p + 1, buf[p + 1])] :
          p \in {ReadPos(buf, pos, 1)} })

\* A LastGames decoder that takes no name for the start of another list.
NoListEnders == {}

\* `if name in ["Hot", "Cold", "Hits", "PreviousResults"]: break`
ListEnders == {N_Hot, N_Cold, N_Hits, N_PreviousResults}

\* A rewind to the start of the buffer.
RewoundToBufferStart(start) == 0

\* `self.stream.seek(pos); break` of a list decoder, pos being the offset
\* of the first byte of the item it gave up on: where the cursor is left.
Rewound(start) == start

(* Deserializer._parse_last_games_list: the state of its loop is the       *)
(* cursor, the games so far and the field names learned from the first     *)
(* entry.                                                                  *)
\* What one iteration of the loop leaves, and whether the loop goes on.
GamesStep(more, games, pos, e, fields) ==
    [more |-> more, val |-> games, pos |-> pos, exc |-> e, fields |-> fields]

\* The first entry: two declared fields, Number and Draw.
LastGamesVerbose(buf, p, name, games) ==
    One({ IF f1.exc # "none" THEN GamesStep(FALSE, games, f1.pos, f1.exc, <<>>)
          ELSE
          One({ IF number.exc # "none"
                THEN GamesStep(FALSE, games, number.pos, number.exc, <<>>)
                ELSE
                One({ IF f2.exc # "none"
                      THEN GamesStep(FALSE, games, f2.pos, f2.exc, <<>>)
                      ELSE GamesStep(TRUE,
                             Append(games,
                                    Game(name, number.val,
                                         VerboseDraw(RunBytes(buf, f2.pos)))),
                             RunEnd(buf, f2.pos), "none",
                             <<f1.name, f2.name>>) :
                      f2 \in {SkipAndName(buf, number.pos)} }) :
                number \in {ParseValue(buf, f1.pos)} }) :
          f1 \in {SkipAndName(buf, p)} })

\* A later entry read like the first one, its two field names declared
\* again.
LastGamesVerboseAgain(buf, start, p, name, games, fields) ==
    LastGamesVerbose(buf, p, name, games)

\* A later entry: 0x08 value 0x09 run; without them, back to the start of
\* the entry.
LastGamesCompact(buf, start, p, name, games, fields) ==
    IF AtEnd(buf, p) \/ buf[p + 1] # 8
    THEN GamesStep(FALSE, games, Rewound(start), "none", fields)
    ELSE
    One({ IF number.exc # "none"
          THEN GamesStep(FALSE, games, number.pos, number.exc, fields)
          ELSE IF AtEnd(buf, number.pos) \/ buf[number.pos + 1] # 9
          THEN GamesStep(FALSE, games, Rewound(start), "none", fields)
          ELSE GamesStep(TRUE,
                 Append(games,
                        Game(name, number.val,
                             CompactDraw(RunBytes(buf, number.pos + 1)))),
                 RunEnd(buf, number.pos + 1), "none", fields) :
          number \in {ParseValue(buf, p + 1)} })

\* One iteration of `while True:`, the cursor at `at`.
LastGamesIter(buf, at, sofar, names) ==
    One({ IF \/ AtEnd(buf, pos)
             \/ buf[pos + 1] # 1
             \/ AtEnd(buf, pos + 1)
             \/ Len(buf) < pos + 2 + buf[pos + 2]
          THEN GamesStep(FALSE, games, pos, "none", fields)
          ELSE
          One({ IF name \in ListEnders
                THEN GamesStep(FALSE, games, pos, "none", fields)
                ELSE IF fields = <<>>
                THEN LastGamesVerbose(buf, pos + 2 + buf[pos + 2], name, games)
                ELSE LastGamesCompact(buf, pos, pos + 2 + buf[pos + 2], name, games,
                                      fields) :
                name \in {DecodeIgnore(ReadBytes(buf, pos + 2, buf[pos + 2]))} }) :
          pos \in {at}, games \in {sofar}, fields \in {names} })

RECURSIVE LastGamesLoop(_, _, _, _)
LastGamesLoop(buf, at, sofar, names) ==
    One({ IF st.more THEN LastGamesLoop(buf, st.pos, st.val, st.fields)
          ELSE ListResult(st.val, st.pos, st.exc) :
          st \in {LastGamesIter(buf, at, sofar, names)} })

ParseLastGamesList(buf, pos) == LastGamesLoop(buf, pos, <<>>, <<>>)

\* The end of a list item: `term_byte = read(1); if not term_byte or
\* term_byte[0] != 0x00: seek(tell() - 1); break`.  The position after it,
\* and whether the loop goes on.
ItemTerminated(buf, pos) == ~AtEnd(buf, pos) /\ buf[pos + 1] = 0

\* A terminator that is looked at and left unread.
AfterItemUnread(buf, pos) == pos

AfterItem(buf, pos) == IF ItemTerminated(buf, pos) THEN pos + 1
                       ELSE ReadPos(buf, pos, 1) - 1

(* Deserializer._parse_hot_cold_list.  The state of its loop is the cursor, *)
(* the items so far and the local field_name.  log is the history of that  *)
(* local: one entry per item appended, `at` being the offset of the item's *)
(* first byte and `name` the value of field_name when it was appended.     *)
HotColdResult(val, pos, e, log) ==
    [val |-> val, pos |-> pos, exc |-> e, log |-> log]

\* A declaration that leaves field_name as it was.
DeclaredNameDropped(field_name, declared) == field_name

\* `field_name = field_name_bytes.decode('utf-8', 'ignore')`
DeclaredName(field_name, declared) == declared

\* `field_name = "Hits"  # Default field name`
DefaultFieldName == N_Hits

\* What one iteration of the loop leaves, and whether the loop goes on.
HotColdStep(more, items, pos, e, field_name, log) ==
    [more |-> more, val |-> items, pos |-> pos, exc |-> e,
     field_name |-> field_name, log |-> log]

\* An item that began at start is complete with the hits byte at offset h:
\* append it, then go on after a 0x00 terminator or stop.
HotColdDone(buf, start, h, items, key, draw, field_name, log) ==
    IF AtEnd(buf, h)
    THEN HotColdStep(FALSE, items, Len(buf), "none", field_name, log)
    ELSE
    One({ HotColdStep(ItemTerminated(buf, h + 1), its, AfterItem(buf, h + 1),
                      "none", field_name, lg) :
          its \in {Append(items,
                     HotColdItem(key, draw, DecodeSingleByteValue(buf[h + 1])))},
          lg \in {Append(log, LogEntry("item", start, field_name))} })

\* The draw byte is at offset p, the marker after it.
HotColdItemAt(buf, start, p, items, key, field_name, log) ==
    IF AtEnd(buf, p) \/ AtEnd(buf, p + 1)
    THEN HotColdStep(FALSE, items, Len(buf), "none", field_name, log)
    ELSE
    CASE buf[p + 2] = 2 ->
           IF AtEnd(buf, p + 2)
           THEN HotColdStep(FALSE, items, Len(buf), "none", field_name, log)
           ELSE IF Len(buf) - (p + 3) < buf[p + 3]
           THEN HotColdStep(FALSE, items, Len(buf), "none", field_name, log)
           ELSE HotColdDone(buf, start, p + 3 + buf[p + 3], items, key,
                  DecodeSingleByteValue(buf[p + 1]),
                  DeclaredName(field_name,
                               DecodeIgnore(ReadBytes(buf, p + 3, buf[p + 3]))),
                  log)
      [] buf[p + 2] = 16 ->
           HotColdDone(buf, start, p + 2, items, key,
                       DecodeSingleByteValue(buf[p + 1]), field_name, log)
      [] OTHER ->
           HotColdStep(FALSE, items, Rewound(start), "none", field_name, log)

\* One iteration of `while True:`, the cursor at `at`.
HotColdIter(buf, at, sofar, name, history) ==
    One({ IF AtEnd(buf, pos) \/ buf[pos + 1] \in {1, 0}
          THEN HotColdStep(FALSE, items, pos, "none", field_name, log)
          ELSE IF AtEnd(buf, pos + 1) \/ buf[pos + 2] # 9
          THEN HotColdStep(FALSE, items, pos, "none", field_name, log)
          ELSE
          \* the optional space after the tab; at the end of the buffer the
          \* seek(tell() - 1) steps back onto the tab
          One({ HotColdItemAt(buf, pos, p, items,
                              DecodeSingleByteValue(buf[pos + 1]), field_name,
                              log) :
                p \in {IF AtEnd(buf, pos + 2) THEN pos + 1
                       ELSE IF buf[pos + 3] = 32 THEN pos + 3
                       ELSE pos + 2} }) :
          pos \in {at}, items \in {sofar}, field_name \in {name},
          log \in {history} })

RECURSIVE HotColdLoop(_, _, _, _, _)
HotColdLoop(buf, at, sofar, name, history) ==
    One({ IF st.more
          THEN HotColdLoop(buf, st.pos, st.val, st.field_name, st.log)
          ELSE HotColdResult(st.val, st.pos, st.exc, st.log) :
          st \in {HotColdIter(buf, at, sofar, name, history)} })

ParseHotColdList(buf, pos) == HotColdLoop(buf, pos, <<>>, DefaultFieldName, <<>>)

(* Deserializer._parse_hits_object.                                        *)
\* The lookahead for 0x01 + "PreviousResults" at pos.
HitsLookaheadStops(buf, pos) ==
    /\ buf[pos + 1] = 1
    /\ ~AtEnd(buf, pos + 1)
    /\ Len(buf) >= pos + 2 + buf[pos + 2]
    /\ DecodeIgnore(ReadBytes(buf, pos + 2, buf[pos + 2])) = N_PreviousResults

\* What one iteration of the loop leaves, and whether the loop goes on.
ListStep(more, items, pos, e) ==
    [more |-> more, val |-> items, pos |-> pos, exc |-> e]

\* The key has been read; the 0x10 marker is expected at offset p.
HitsItemAt(buf, start, p, items, key) ==
    IF AtEnd(buf, p) \/ buf[p + 1] # 16
    THEN ListStep(FALSE, items, Rewound(start), "none")
    ELSE IF AtEnd(buf, p + 1) THEN ListStep(FALSE, items, Len(buf), "none")
    ELSE ListStep(ItemTerminated(buf, p + 2),
                  Append(items,
                         HitsItem(key, DecodeSingleByteValue(buf[p + 2]))),
                  AfterItem(buf, p + 2), "none")

\* One iteration of `while True:`, the cursor at `at`.
HitsIter(buf, at, sofar) ==
    One({ IF AtEnd(buf, pos) \/ buf[pos + 1] = 0
          THEN ListStep(FALSE, items, pos, "none")
          ELSE IF HitsLookaheadStops(buf, pos)
          THEN ListStep(FALSE, items, pos, "none")
          ELSE IF buf[pos + 1] = 1
          THEN IF AtEnd(buf, pos + 1) \/ Len(buf) - (pos + 2) < buf[pos + 2]
               THEN ListStep(FALSE, items, Len(buf), "none")
               ELSE HitsItemAt(buf, pos, pos + 2 + buf[pos + 2], items,
                      PyStr(DecodeIgnore(ReadBytes(buf, pos + 2, buf[pos + 2]))))
          ELSE HitsItemAt(buf, pos, pos + 1, items,
                          PyInt(DecodeSingleByteValue(buf[pos + 1]))) :
          pos \in {at}, items \in {sofar} })

RECURSIVE HitsLoop(_, _, _)
HitsLoop(buf, at, sofar) ==
    One({ IF st.more THEN HitsLoop(buf, st.pos, st.val)
          ELSE ListResult(st.val, st.pos, st.exc) :
          st \in {HitsIter(buf, at, sofar)} })

ParseHitsObject(buf, pos) == HitsLoop(buf, pos, <<>>)

----------------------------------------------------------------------------
(* Deserializer._parse_info_object.  InfoLoop is its while loop; lists     *)
(* holds the four lists as assigned so far.                                *)

Info(id, valid_from, lists) ==
    [cls |-> "Info", id |-> id, valid_from |-> valid_from,
     last_games |-> lists.last_games, hot |-> lists.hot,
     cold |-> lists.cold, hits |-> lists.hits]

NoLists == [last_games |-> <<>>, hot |-> <<>>, cold |-> <<>>, hits |-> <<>>]

\* The bytes consumed for the PreviousResults sub-object after its name.
PreviousResultsSkip == 1

\* The sub-parser chosen by the name of a nested object, run at offset p.
InfoSub(buf, p, name) ==
    CASE name = N_LastGames -> ParseLastGamesList(buf, p)
      [] name \in {N_Hot, N_Cold} -> ParseHotColdList(buf, p)
      [] name = N_Hits -> ParseHitsObject(buf, p)
      [] name = N_PreviousResults ->
           ListResult(<<>>, ReadPos(buf, p, PreviousResultsSkip), "none")
      [] OTHER -> ListResult(<<>>, p, "none")

\* The local the result of the sub-parser is assigned to.
InfoAssign(lists, name, val) ==
    CASE name = N_LastGames -> [lists EXCEPT !.last_games = val]
      [] name = N_Hot -> [lists EXCEPT !.hot = val]
      [] name = N_Cold -> [lists EXCEPT !.cold = val]
      [] name = N_Hits -> [lists EXCEPT !.hits = val]
      [] OTHER -> lists

\* A loop that takes every byte other than 0x00 for the start of a nested
\* object.
InfoBreaksNever(buf, pos) == FALSE

\* `if peek == b'\x01': ... else: break`, the byte at pos not being 0x00.
InfoBreaks(buf, pos) == buf[pos + 1] # 1

\* One iteration of `while True:`, the cursor at `at`: what it leaves, and
\* whether the loop goes on.
InfoIter(buf, at, sofar) ==
    One({ IF AtEnd(buf, pos) THEN ListStep(FALSE, lists, pos, "none")
          ELSE IF buf[pos + 1] = 0 THEN ListStep(TRUE, lists, pos + 1, "none")
          ELSE IF InfoBreaks(buf, pos) THEN ListStep(FALSE, lists, pos, "none")
          ELSE IF AtEnd(buf, pos + 1)
          THEN ListStep(FALSE, lists, pos + 1, "IndexError")
          ELSE
          One({ One({ IF sub.exc # "none"
                      THEN ListStep(FALSE, lists, sub.pos, sub.exc)
                      ELSE ListStep(TRUE, InfoAssign(lists, name, sub.val),
                                    sub.pos, "none") :
                      sub \in {InfoSub(buf, ReadPos(buf, pos + 2, buf[pos + 2]),
                                       name)} }) :
                name \in {DecodeIgnore(ReadBytes(buf, pos + 2, buf[pos + 2]))} }) :
          pos \in {at}, lists \in {sofar} })

RECURSIVE InfoLoop(_, _, _)
InfoLoop(buf, at, sofar) ==
    One({ IF st.more THEN InfoLoop(buf, st.pos, st.val)
          ELSE ListResult(st.val, st.pos, st.exc) :
          st \in {InfoIter(buf, at, sofar)} })

\* The two leading fields, ID and ValidFrom, then the loop.
ParseInfoObject(buf, pos, info_id) ==
    One({ IF f1.exc # "none" THEN ListResult(PyNone, f1.pos, f1.exc)
          ELSE
          One({ IF event_id.exc # "none"
                THEN ListResult(PyNone, event_id.pos, event_id.exc)
                ELSE
                One({ IF f2.exc # "none" THEN ListResult(PyNone, f2.pos, f2.exc)
                      ELSE
                      One({ IF valid_from.exc # "none"
                            THEN ListResult(PyNone, valid_from.pos,
                                            valid_from.exc)
                            ELSE
                            One({ IF body.exc # "none"
                                  THEN ListResult(PyNone, body.pos, body.exc)
                                  ELSE ListResult(Info(event_id.val,
                                                       valid_from.val, body.val),
                                                  body.pos, "none") :
                                  body \in {InfoLoop(buf, valid_from.pos,
                                                     NoLists)} }) :
                            valid_from \in {ParseValue(buf, f2.pos)} }) :
                      f2 \in {SkipAndName(buf, event_id.pos)} }) :
                event_id \in {ParseValue(buf, f1.pos)} }) :
          f1 \in {SkipAndName(buf, pos)} })

----------------------------------------------------------------------------
(* One iteration of the while loop of Deserializer.deserialize, entered    *)
(* with the cursor at pos < len(buffer).  kind tells how it ended:         *)
(*   "scan"    the byte is not '"'                                         *)
(*   "resync"  no 0x01 after the id: `continue`                            *)
(*   "break"   no name length byte: `break`                                *)
(*   "record"  an event or info frame was decoded and appended             *)
(*   "other"   the name is neither 'event' nor 'info'                      *)
(*   "raise"   an exception escaped                                        *)

StepResult(kind, pos, rec, e, log) ==
    [kind |-> kind, pos |-> pos, rec |-> rec, exc |-> e, log |-> log]

\* Where the scan resumes after a candidate frame start at pos (a '"', the
\* id and one more byte have been read) whose object marker is missing.
ResyncPos(buf, pos) == ReadPos(buf, ReadPos(buf, pos + 1, 3), 1)

\* `event_obj = self._parse_event_object(id_val); objects.append(event_obj)`
EventStep(buf, p, id_val) ==
    One({ IF r.exc # "none" THEN StepResult("raise", r.pos, PyNone, r.exc, r.log)
          ELSE StepResult("record", r.pos, r.val, "none", r.log) :
          r \in {ParseEventObject(buf, p, id_val)} })

\* `info_obj = self._parse_info_object(id_val); objects.append(info_obj)`
InfoStep(buf, p, id_val) ==
    One({ IF r.exc # "none" THEN StepResult("raise", r.pos, PyNone, r.exc, <<>>)
          ELSE StepResult("record", r.pos, r.val, "none", <<>>) :
          r \in {ParseInfoObject(buf, p, id_val)} })

\* The frame header has been read up to the name length byte at offset h.
NamedStep(buf, h, id_val) ==
    One({ IF name.exc # "none" THEN StepResult("raise", p, PyNone, name.exc, <<>>)
          ELSE IF name.s = N_event THEN EventStep(buf, p, id_val)
          ELSE IF name.s = N_info THEN InfoStep(buf, p, id_val)
          ELSE StepResult("other", p, PyNone, "none", <<>>) :
          name \in {DecodeStrict(ReadBytes(buf, h + 1, buf[h + 1]))},
          p \in {ReadPos(buf, h + 1, buf[h + 1])} })

\* What the bytes of a frame header lead to, the cursor being at pos on a
\* byte of the buffer: "scan", "resync", "break", or "named" when a name
\* follows.
HeaderKind(buf, pos) ==
    IF buf[pos + 1] # 34 THEN "scan"
    ELSE One({ IF AtEnd(buf, h) \/ buf[h + 1] # 1 THEN "resync"
               ELSE IF AtEnd(buf, h + 1) THEN "break"
               ELSE "named" :
               h \in {ReadPos(buf, pos + 1, 3)} })

FrameStep(buffer, at) ==
    One({ CASE kind = "scan" ->
                 StepResult("scan", pos + 1, PyNone, "none", <<>>)
            [] kind = "resync" ->
                 StepResult("resync", ResyncPos(buf, pos), PyNone, "none", <<>>)
            [] kind = "break" ->
                 StepResult("break", ReadPos(buf, pos + 1, 3) + 1, PyNone,
                            "none", <<>>)
            [] OTHER ->
                 NamedStep(buf, ReadPos(buf, pos + 1, 3) + 1,
                           DecodeMultiByteValue(ReadBytes(buf, pos + 1, 3))) :
          buf \in {buffer}, pos \in {at}, kind \in {HeaderKind(buffer, at)} })

(* deserialize() run from pos to its end: the records returned, or the     *)
(* exception that escaped.                                                 *)
RECURSIVE DeserializeFrom(_, _, _)
DeserializeFrom(buf, at, sofar) ==
    One({ IF AtEnd(buf, pos) THEN [objects |-> objs, exc |-> "none", pos |-> pos]
          ELSE
          One({ CASE st.kind = "raise" ->
                       [objects |-> objs, exc |-> st.exc, pos |-> st.pos]
                  [] st.kind = "break" ->
                       [objects |-> objs, exc |-> "none", pos |-> st.pos]
                  [] st.kind = "record" ->
                       DeserializeFrom(buf, st.pos, Append(objs, st.rec))
                  [] OTHER -> DeserializeFrom(buf, st.pos, objs) :
                st \in {FrameStep(buf, pos)} }) :
          \* bytes other than '"' are stepped over one at a time
          pos \in {ScanUntil(buf, at, {34})}, objs \in {sofar} })

Deserialize(buffer) == One({ DeserializeFrom(buf, 0, <<>>) : buf \in {buffer} })

----------------------------------------------------------------------------
(* Input buffers.  Frames are put together the way the captured traffic in *)
(* src/final.py is: '"' + 3 id bytes + 0x01 + length-prefixed name + body. *)

N_ID == <<73, 68>>
N_ValidFrom == <<86, 97, 108, 105, 100, 70, 114, 111, 109>>
N_Draw == <<68, 114, 97, 119>>
N_Odds == <<79, 100, 100, 115>>
N_Win == <<87, 105, 110>>
N_Red == <<82, 101, 100>>
N_data == <<100, 97, 116, 97>>

Named(marker, name) == <<marker, Len(name)>> \o name
Frame(id, name, body) == <<34>> \o id \o Named(1, name) \o body

\* event { Type="Sp" Duration=20 HasLevels=1
\*         Market { Win { Odds=36 } Red { (0x0C)=2 } } }
EventMarkets ==
    Frame(<<130, 54, 23>>, N_event,
          Named(2, N_Type) \o <<138, 83, 112>>
          \o Named(2, N_Duration) \o <<32, 20>>
          \o Named(2, N_HasLevels) \o <<1>>
          \o Named(1, N_Market)
          \o Named(1, N_Win) \o Named(2, N_Odds) \o <<130, 51, 54, 0>>
          \o Named(1, N_Red) \o <<12, 129, 50, 0>>
          \o <<0, 0>>)

\* event { (0x0C) 0x81 "2" }: a repeat with no field name declared before it
EventBareRepeat == Frame(<<1, 0, 0>>, N_event, <<12, 129, 50, 0>>)

\* event { ID=... Number=89 }, the last field closed by the event's 0x00
EventNumber ==
    Frame(<<110, 92, 23>>, N_event,
          Named(2, N_ID) \o <<34, 110, 92, 23>>
          \o Named(2, N_Number) \o <<130, 56, 57, 0>>)

InfoHead(id) ==
    Frame(id, N_info,
          Named(2, N_ID) \o <<34, 130, 54, 23>>
          \o Named(2, N_ValidFrom) \o <<7, 0, 217, 49, 125, 96, 193, 0, 0>>)

\* info { LastGames { 0 {Number=89 Draw=""} 1 {88, ':'} } Hot { 2 items } }
InfoGames ==
    InfoHead(<<15, 60, 127>>)
    \o Named(1, N_LastGames)
    \o Named(1, <<48>>) \o Named(2, N_Number) \o <<133, 56, 57>>
    \o Named(2, N_Draw) \o <<0>>
    \o Named(1, <<49>>) \o <<8, 133, 56, 56, 9, 58, 0>>
    \o <<0>>
    \o Named(1, N_Hot)
    \o <<7, 9, 32, 26>> \o Named(2, N_Hits) \o <<58, 0>>
    \o <<10, 9, 48, 16, 57, 0>>
    \o <<0, 0>>

\* info { Cold { 1 item } Hits { 7=10, "Lo"=96 } PreviousResults {} }
InfoHits ==
    InfoHead(<<131, 41, 128>>)
    \o Named(1, N_Cold) \o <<7, 9, 35, 16, 50, 0>> \o <<0>>
    \o Named(1, N_Hits) \o <<7, 16, 58, 0>>
    \o Named(1, <<76, 111>>) \o <<16, 96, 0>> \o <<0>>
    \o Named(1, N_PreviousResults) \o <<0>>
    \o <<0>>

\* The well-formed frames the inputs are built from.
Library == <<EventMarkets, EventBareRepeat, EventNumber, InfoGames, InfoHits>>
PairLibrary == <<EventBareRepeat, EventNumber, InfoGames>>

MaxFrames == 2
MaxTail == 3

JunkBytes == {0, 1, 34, 65}
TailBytes == {0, 1, 2, 12, 49, 65, 129, 255}

RECURSIVE SeqsUpTo(_, _)
SeqsUpTo(S, n) ==
    IF n = 0 THEN {<<>>}
    ELSE UNION {shorter \cup {Append(q, x) : q \in shorter, x \in S} :
                   shorter \in {SeqsUpTo(S, n - 1)}}

LibraryFrames(lib) == {lib[j] : j \in 1..Len(lib)}

(* How a buffer was put together: the parts concatenated, cut to the first *)
(* `cut` bytes.                                                            *)
Scenario(kind, parts, cut) == [kind |-> kind, parts |-> parts, cut |-> cut]
Whole(kind, parts) == Scenario(kind, parts, Len(Concat(parts)))
BufferOf(sc) == SubSeq(Concat(sc.parts), 1, sc.cut)

\* k well-formed frames one after the other
ConcatInputs(lib) ==
    {Whole("concat", fs) : fs \in SeqsUpTo(LibraryFrames(lib), MaxFrames)}
\* frame + three junk bytes + frame
ResyncInputs ==
    {Whole("resync", <<f1, j, f2>>) :
        f1 \in LibraryFrames(Library), f2 \in LibraryFrames(Library),
        j \in SeqsUpTo(JunkBytes, 3) \ SeqsUpTo(JunkBytes, 2)}
\* a well-formed frame cut short
CutInputs ==
    UNION {{Scenario("cut", <<f>>, n) : n \in 0..(Len(f) - 1)} :
              f \in LibraryFrames(Library)}
\* a frame header followed by arbitrary bytes
FreeInputs ==
    {Whole("free", <<Frame(<<1, 2, 3>>, n, <<>>), t>>) :
        n \in {N_event, N_data, <<255>>}, t \in SeqsUpTo(TailBytes, MaxTail)}

Inputs == ConcatInputs(Library) \cup ResyncInputs \cup CutInputs \cup FreeInputs
PairInputs ==
    ConcatInputs(PairLibrary)
    \cup {Whole("resync", <<EventNumber, <<65, 65, 34>>, EventBareRepeat>>),
          Whole("free", <<Frame(<<1, 2, 3>>, N_data, <<>>), <<0>>>>),
          Whole("free", <<Frame(<<1, 2, 3>>, N_event, <<>>), <<1>>>>)}

----------------------------------------------------------------------------
(* UnifiedParser of src/final.py, the variant of the decoder that builds   *)
(* dicts: its constructor and its _parse_hot_cold_list, which keeps the    *)
(* name of the hits field as the key of each item.                         *)

\* UnifiedParser.__init__: `data.replace(b' ', b'')`
WithoutSpaces(data) == SelectSeq(data, LAMBDA b : b # 32)

\* decode_single_byte_value of final.py: a digit is its value, ':' is 10.
UnifiedSingleByteValue(b) ==
    IF b >= 48 /\ b <= 57 THEN b - 48 ELSE IF b = 58 THEN 10 ELSE b

\* `obj[i] = {"Draw": draw, field_name: hits}`, i being the number of items
\* so far.
UnifiedItem(i, draw, field_name, hits) ==
    <<i, PyDict(DictSet(<<<<N_Draw, PyInt(draw)>>>>, field_name, PyInt(hits)))>>

RECURSIVE UnifiedHotColdLoop(_, _, _, _)

\* The hits byte is at offset h: the item is stored, then the terminator.
UnifiedHotColdDone(buf, h, obj, draw, field_name) ==
    IF AtEnd(buf, h) THEN ListResult(obj, Len(buf), "none")
    ELSE
    One({ IF ItemTerminated(buf, h + 1)
          THEN UnifiedHotColdLoop(buf, AfterItem(buf, h + 1), its, field_name)
          ELSE ListResult(its, AfterItem(buf, h + 1), "none") :
          its \in {Append(obj,
                     UnifiedItem(Len(obj), draw, field_name,
                                 UnifiedSingleByteValue(buf[h + 1])))} })

UnifiedHotColdLoop(buf, at, sofar, name) ==
    One({ IF AtEnd(buf, pos) \/ buf[pos + 1] = 1
          THEN ListResult(obj, pos, "none")
          ELSE IF AtEnd(buf, pos + 1) \/ buf[pos + 2] # 9
          THEN ListResult(obj, pos, "none")
          ELSE IF AtEnd(buf, pos + 2) \/ AtEnd(buf, pos + 3)
          THEN ListResult(obj, Len(buf), "none")
          ELSE
          CASE buf[pos + 4] = 2 /\ AtEnd(buf, pos + 4) ->
                 ListResult(obj, Len(buf), "IndexError")
            [] buf[pos + 4] = 2 /\ ~AtEnd(buf, pos + 4) ->
                 UnifiedHotColdDone(buf, ReadPos(buf, pos + 5, buf[pos + 5]), obj,
                   UnifiedSingleByteValue(buf[pos + 3]),
                   DecodeIgnore(ReadBytes(buf, pos + 5, buf[pos + 5])))
            [] buf[pos + 4] = 16 ->
                 UnifiedHotColdDone(buf, pos + 4, obj,
                                    UnifiedSingleByteValue(buf[pos + 3]), field_name)
            [] OTHER -> ListResult(obj, pos, "none") :
          pos \in {at}, obj \in {sofar}, field_name \in {name} })

UnifiedParseHotColdList(buf, pos) == UnifiedHotColdLoop(buf, pos, <<>>, N_Hits)

----------------------------------------------------------------------------
(* UnifiedParser._parse_value and UnifiedParser._parse_generic_object.     *)

\* A number as its base-256 digits, the most significant first and not 0.
RECURSIVE Numeral(_)
Numeral(bytes) ==
    IF bytes # <<>> /\ Head(bytes) = 0 THEN Numeral(Tail(bytes)) ELSE bytes
\* The digits of the quotient of the number with the digits `bytes`, after
\* the remainder r of the digits before them, by 1000.
RECURSIVE DivThousand(_, _)
DivThousand(bytes, r) ==
    IF bytes = <<>> THEN <<>>
    ELSE <<(r * 256 + Head(bytes)) \div 1000>>
         \o DivThousand(Tail(bytes), (r * 256 + Head(bytes)) % 1000)
\* a < b for two numerals
RECURSIVE NumeralLess(_, _)
NumeralLess(a, b) ==
    IF Len(a) # Len(b) THEN Len(a) < Len(b)
    ELSE IF a = <<>> THEN FALSE
    ELSE IF Head(a) # Head(b) THEN Head(a) < Head(b)
    ELSE NumeralLess(Tail(a), Tail(b))
\* 253402300800, the first second of the year 10000 (UTC)
YearTenThousand == <<58, 255, 244, 65, 128>>

\* `datetime.fromtimestamp(ts / 1000).strftime('%Y-%m-%d %H:%M:%S')`: a str
\* that names the second ts // 1000, kept here as the numeral of that
\* second; and 'Invalid Timestamp value: <ts>' when fromtimestamp raises
\* ValueError, the year being past 9999.
TimeString(ts_bytes) ==
    IF NumeralLess(Numeral(DivThousand(ts_bytes, 0)), YearTenThousand)
    THEN PyStr(<<"time", Numeral(DivThousand(ts_bytes, 0))>>)
    ELSE PyStr(<<"invalid", Numeral(ts_bytes)>>)

\* A _parse_value whose 0x81 / 0x82 run has no default for the empty run.
UnifiedParseValueNoDefault(buf, at) ==
    IF ~AtEnd(buf, at) /\ buf[at + 1] \in {129, 130}
    THEN One({ IntValueNoDefault(DecodeIgnore(SubSeq(buf, at + 2, e)), e) :
               e \in {ScanUntil(buf, at + 1, {0})} })
    ELSE ParseValue(buf, at)

UnifiedParseValue(buf, at) ==
    One({ IF AtEnd(buf, pos) THEN [val |-> PyNone, pos |-> pos, exc |-> "none"]
          ELSE
          CASE buf[pos + 1] = 34 ->
                 [val |-> DecodeMultiByteValue(ReadBytes(buf, pos + 1, 3)),
                  pos |-> ReadPos(buf, pos + 1, 3), exc |-> "none"]
            [] buf[pos + 1] \in {138, 133} ->
                 One({ [val |-> PyStr(Strip(DecodeIgnore(SubSeq(buf, pos + 2, e)))),
                        pos |-> e, exc |-> "none"] :
                       e \in {ScanUntil(buf, pos + 1, {0, 1, 2, 12, 8, 9})} })
            [] buf[pos + 1] \in {129, 130} ->
                 One({ IntValue(DecodeIgnore(SubSeq(buf, pos + 2, e)), e) :
                       e \in {ScanUntil(buf, pos + 1, {0})} })
            [] buf[pos + 1] = 32 ->
                 [val |-> IF AtEnd(buf, pos + 1) THEN PyInt(0)
                          ELSE PyInt(buf[pos + 2]),
                  pos |-> ReadPos(buf, pos + 1, 1), exc |-> "none"]
            [] buf[pos + 1] = 7 ->
                 [val |-> TimeString(ReadBytes(buf, pos + 1, 6)),
                  pos |-> ReadPos(buf, pos + 1, 8), exc |-> "none"]
            [] OTHER -> [val |-> PyInt(buf[pos + 1]), pos |-> pos + 1,
                         exc |-> "none"] :
          pos \in {at} })

UnifiedObjResult(obj, last, pos, e) ==
    [obj |-> obj, last |-> last, pos |-> pos, exc |-> e]

\* The while loop of _parse_generic_object from the cursor `at`, obj and
\* last_field_in_scope being what the iterations before have left.
RECURSIVE UnifiedObjLoop(_, _, _, _)
UnifiedObjLoop(buf, at, dict, scope) ==
    One({ IF AtEnd(buf, pos) \/ buf[pos + 1] = 0
          THEN UnifiedObjResult(obj, last_field_in_scope, ReadPos(buf, pos, 1),
                                "none")
          ELSE
          CASE buf[pos + 1] \in {1, 2} /\ AtEnd(buf, pos + 1) ->
                 UnifiedObjResult(obj, last_field_in_scope, pos + 1, "IndexError")
            [] buf[pos + 1] = 1 /\ ~AtEnd(buf, pos + 1) ->
                 One({ IF inner.exc # "none" THEN inner
                       ELSE UnifiedObjLoop(buf, inner.pos,
                                DictSet(obj, name, PyDict(inner.obj)),
                                IF Truthy(inner.last) THEN inner.last
                                ELSE last_field_in_scope) :
                       name \in {DecodeIgnore(ReadBytes(buf, pos + 2, buf[pos + 2]))},
                       inner \in {UnifiedObjLoop(buf,
                                     ReadPos(buf, pos + 2, buf[pos + 2]), <<>>,
                                     last_field_in_scope)} })
            [] buf[pos + 1] = 2 /\ ~AtEnd(buf, pos + 1) ->
                 One({ IF v.exc # "none"
                       THEN UnifiedObjResult(obj, PyStr(field_name), v.pos, v.exc)
                       ELSE UnifiedObjLoop(buf, v.pos,
                                DictSet(obj, field_name, v.val),
                                PyStr(field_name)) :
                       field_name \in
                           {DecodeIgnore(ReadBytes(buf, pos + 2, buf[pos + 2]))},
                       v \in {UnifiedParseValue(buf,
                                 ReadPos(buf, pos + 2, buf[pos + 2]))} })
            [] buf[pos + 1] = 12 /\ Truthy(last_field_in_scope) ->
                 One({ IF v.exc # "none"
                       THEN UnifiedObjResult(obj, last_field_in_scope, v.pos,
                                             v.exc)
                       ELSE UnifiedObjLoop(buf, v.pos,
                                DictSet(obj, last_field_in_scope[2], v.val),
                                last_field_in_scope) :
                       v \in {UnifiedParseValue(buf, pos + 1)} })
            [] OTHER -> UnifiedObjLoop(buf, pos + 1, obj, last_field_in_scope) :
          pos \in {at}, obj \in {dict}, last_field_in_scope \in {scope} })

UnifiedParseGenericObject(buf, pos, last_field_from_parent) ==
    UnifiedObjLoop(buf, pos, <<>>, last_field_from_parent)

\* The scenarios whose instance is a UnifiedParser.
UnifiedKinds == {"unified", "uobject", "uparse"}

\* A constructor that keeps the bytes as they were given.
StreamDataAsGiven(sc) == BufferOf(sc)

\* The bytes the stream of an instance holds: those it was made from, or,
\* for a UnifiedParser, those bytes without the spaces.
StreamData(sc) ==
    IF sc.kind \in UnifiedKinds THEN WithoutSpaces(BufferOf(sc))
    ELSE BufferOf(sc)

----------------------------------------------------------------------------
(* The state machine.  Deserializer(data) makes an instance with its own   *)
(* io.BytesIO; deserialize() is run one iteration of its while loop at a   *)
(* time.                                                                   *)

\* One stream object for every instance.
NewStreamShared(i) == 1

\* The stream object Deserializer.__init__ gives instance i.
NewStream(i) == i

Buf(i) == stream[self[i].stream].data
Pos(i) == stream[self[i].stream].pos

\* The instances I, each made from a buffer of S, about to run `start`.
InitAt(I, S, start) ==
    /\ input \in [I -> S]
    /\ self = [i \in I |-> [stream |-> NewStream(i), last_field_name |-> PyNone]]
    /\ stream = [st \in {NewStream(i) : i \in I} |->
                   [data |-> StreamData(input[CHOOSE k \in I :
                                 /\ NewStream(k) = st
                                 /\ \A m \in I : NewStream(m) = st => m <= k]),
                    pos |-> 0]]
    /\ objects = [i \in I |-> <<>>]
    /\ pc = [i \in I |-> start]
    /\ exc = [i \in I |-> "none"]
    /\ trace = [i \in I |-> <<>>]
    /\ ret = [i \in I |-> PyNone]

InitOf(I, S) == InitAt(I, S, "loop")

Init == InitOf({1}, Inputs)
InitPair == InitOf({1, 2}, PairInputs)

\* One iteration of the loop of instance i, when its cursor is not at the
\* end of the buffer.
Running(i) == pc[i] = "loop" /\ ~AtEnd(Buf(i), Pos(i))
Header(i) == HeaderKind(Buf(i), Pos(i))
Step(i) == FrameStep(Buf(i), Pos(i))
\* A cursor kept once for all streams.
SeekAll(i, p) ==
    stream' = [st \in DOMAIN stream |-> [stream[st] EXCEPT !.pos = p]]

\* self.stream.read / seek: the cursor of the instance's own stream moves.
Seek(i, p) == stream' = [stream EXCEPT ![self[i].stream].pos = p]

\* The byte at the cursor is not '"': the scan moves on.
ScanByte(i) ==
    /\ Running(i)
    /\ Header(i) = "scan"
    /\ \E st \in {Step(i)} :
          /\ st.kind = "scan"
          /\ Seek(i, st.pos)
    /\ UNCHANGED <<self, objects, pc, exc, input, trace, ret>>

\* A '"' not followed, after the id, by 0x01: `continue`.
Resync(i) ==
    /\ Running(i)
    /\ Header(i) = "resync"
    /\ \E st \in {Step(i)} :
          /\ st.kind = "resync"
          /\ Seek(i, st.pos)
    /\ UNCHANGED <<self, objects, pc, exc, input, trace, ret>>

\* An 'event' or 'info' frame is decoded and appended to objects.
DecodeFrame(i) ==
    /\ Running(i)
    /\ Header(i) = "named"
    /\ \E st \in {Step(i)} :
          /\ st.kind = "record"
          /\ Seek(i, st.pos)
          /\ objects' = [objects EXCEPT ![i] = Append(@, st.rec)]
          /\ trace' = [trace EXCEPT ![i] = st.log]
    /\ UNCHANGED <<self, pc, exc, input, ret>>

\* A frame with another name: nothing is appended.
SkipFrame(i) ==
    /\ Running(i)
    /\ Header(i) = "named"
    /\ \E st \in {Step(i)} :
          /\ st.kind = "other"
          /\ Seek(i, st.pos)
    /\ UNCHANGED <<self, objects, pc, exc, input, trace, ret>>

\* An exception escapes deserialize().
Raise(i) ==
    /\ Running(i)
    /\ Header(i) = "named"
    /\ \E st \in {Step(i)} :
          /\ st.kind = "raise"
          /\ Seek(i, st.pos)
          /\ exc' = [exc EXCEPT ![i] = st.exc]
          /\ trace' = [trace EXCEPT ![i] = st.log]
    /\ pc' = [pc EXCEPT ![i] = "raised"]
    /\ UNCHANGED <<self, objects, input, ret>>

\* The loop ends (the cursor is at the end, or a `break`): objects is
\* returned.
Return(i) ==
    /\ pc[i] = "loop"
    /\ IF AtEnd(Buf(i), Pos(i)) THEN UNCHANGED stream
       ELSE /\ Header(i) = "break"
            /\ \E st \in {Step(i)} : st.kind = "break" /\ Seek(i, st.pos)
    /\ pc' = [pc EXCEPT ![i] = "done"]
    /\ UNCHANGED <<self, objects, exc, input, trace, ret>>

Next ==
    \/ \E i \in DOMAIN pc : ScanByte(i)
    \/ \E i \in DOMAIN pc : Resync(i)
    \/ \E i \in DOMAIN pc : DecodeFrame(i)
    \/ \E i \in DOMAIN pc : SkipFrame(i)
    \/ \E i \in DOMAIN pc : Raise(i)
    \/ \E i \in DOMAIN pc : Return(i)

Spec == Init /\ [][Next]_vars
SpecPair == InitPair /\ [][Next]_vars

----------------------------------------------------------------------------
(* Single method calls.  A Deserializer is made from a buffer and one      *)
(* method is called on it, once, with the cursor at the start of the       *)
(* buffer.  The kind of the scenario tells which method; ret[i] is what    *)
(* the call returned and pc[i] becomes "returned", or "raised" when an     *)
(* exception escaped the call.                                             *)

\* The bytes values are made of: marker bytes, then what follows them.
ValueMarkers == {34, 138, 133, 129, 130, 32, 7, 1, 65, 53, 58}
ValueBytes == {0, 9, 49, 65, 255}
\* The bytes ids are made of; 130 54 23 is the id of the captured event.
IdBytes == {0, 1, 23, 54, 130, 255}
IdTriples == {<<b0, b1, b2>> : b0 \in IdBytes, b1 \in IdBytes, b2 \in IdBytes}

\* a value: a marker byte and up to MaxTail bytes after it
ValueInputs ==
    {Whole("value", <<<<m>>, t>>) :
        m \in ValueMarkers, t \in SeqsUpTo(ValueBytes, MaxTail)}
\* a 0x81 / 0x82 value: the marker, a run of up to MaxTail digits, and the
\* bytes that follow
DigitRuns == SeqsUpTo({48, 49, 57}, MaxTail)
IntRunInputs ==
    {Whole("value", <<<<m>>, run, t>>) :
        m \in {129, 130}, run \in DigitRuns, t \in {<<>>, <<0>>, <<0, 49>>}}
\* an event frame whose last field, Number, is such a value: the 0x00 after
\* the run is the one that closes the event; then nothing, or an empty
\* event frame
NumberFrameInputs ==
    {Whole("number", <<Frame(<<1, 2, 3>>, N_event, Named(2, N_Number)),
                       <<m>>, run, <<0>>, f>>) :
        m \in {129, 130}, run \in DigitRuns,
        f \in {<<>>, Frame(<<4, 5, 6>>, N_event, <<0>>)}}
\* a 0x22 value: the marker, three id bytes, and the bytes that follow
IdValueInputs ==
    {Whole("idvalue", <<<<34>>, id, t>>) :
        id \in IdTriples, t \in {<<>>, <<0>>, <<1, 255>>}}
\* an empty event frame: '"', three id bytes, then 0x01 + 'event' + 0x00
IdFrameInputs ==
    {Whole("idframe", <<<<34>>, id, Named(1, N_event) \o <<0>>>>) :
        id \in IdTriples}

MaxItems == 3

\* A list scenario: up to MaxItems whole entries, then one more part that
\* is empty or an item cut short or malformed, then the bytes that follow.
ListInputs(kind, entries, lasts, rests) ==
    {Whole(kind, es \o <<l, r>>) :
        es \in SeqsUpTo(entries, MaxItems), l \in lasts, r \in rests}
Entries(sc) == SubSeq(sc.parts, 1, Len(sc.parts) - 2)
LastPart(sc) == sc.parts[Len(sc.parts) - 1]
Rest(sc) == sc.parts[Len(sc.parts)]

\* A Hot / Cold entry: key, tab, draw, the hits marker (0x10, or 0x02 and a
\* length-prefixed name), hits, and the 0x00 that ends it.
HotColdEntry(key, draw, marker, hits) ==
    <<key, 9, draw>> \o marker \o <<hits, 0>>
\* as captured: 07 09 20 1A 02 04 'Hits' 3A 00, a space between tab and draw
HotColdPadded == <<7, 9, 32, 26>> \o Named(2, N_Hits) \o <<58, 0>>
HotColdEntries ==
    {HotColdEntry(7, 26, <<16>>, 5),
     HotColdEntry(10, 58, Named(2, <<88>>), 58),
     HotColdEntry(11, 48, <<16>>, 57),
     HotColdEntry(12, 32, <<16>>, 5),
     HotColdEntry(1, 26, <<16>>, 5),
     HotColdEntry(13, 27, Named(2, N_Draw \o <<50>>), 49),
     HotColdPadded}
\* An item without its terminator; items that miss an expected byte.
HotColdOpen == {<<13, 9, 27, 16, 49>>, <<13, 9, 27, 16, 1>>}
HotColdBad == {<<13, 65, 27, 16, 49, 0>>, <<13, 9, 27, 65, 49, 0>>, <<13>>}
ListRests == {<<>>, <<0>>, <<1>>, <<65, 0>>}

HotColdInputs ==
    ListInputs("hotcold", HotColdEntries,
               {<<>>} \cup HotColdOpen \cup HotColdBad, ListRests)

\* A Hits entry: a key byte or 0x01 + a length-prefixed key, then 0x10, the
\* hits byte, and the 0x00 that ends it.
HitsPositional(key, hits) == <<key, 16, hits, 0>>
HitsExplicit(name, hits) == Named(1, name) \o <<16, hits, 0>>
HitsEntries ==
    {HitsPositional(7, 58), HitsPositional(10, 53),
     HitsExplicit(<<54>>, 57), HitsExplicit(<<76, 111>>, 96)}
HitsOpen == {<<11, 16, 57>>, Named(1, <<55>>) \o <<16, 1>>}
HitsBad == {<<11, 65, 57, 0>>, Named(1, <<55>>) \o <<17, 52, 0>>, <<11>>}

HitsInputs ==
    ListInputs("hits", HitsEntries, {<<>>} \cup HitsOpen \cup HitsBad, ListRests)

\* Seven positional entries: those of the captured info frame (07 10 ':' 00,
\* 07 10 ':' 00, 0A 10 '5' 00, ...), or seven with the key bytes '0'..'6'.
HitsHeads ==
    {<<HitsPositional(7, 58), HitsPositional(7, 58), HitsPositional(10, 53),
       HitsPositional(11, 57), HitsPositional(12, 53), HitsPositional(13, 56),
       HitsPositional(14, 53)>>,
     [k \in 1..7 |-> HitsPositional(47 + k, 48 + k)]}
\* seven positional entries, then up to MaxItems explicit ones, then 0x00
Hits7Inputs ==
    {Whole("hits7", head \o es \o <<<<>>, <<0>>>>) :
        head \in HitsHeads,
        es \in SeqsUpTo({HitsExplicit(<<54>>, 57), HitsExplicit(<<76, 111>>, 96),
                         HitsExplicit(<<55>>, 52)}, MaxItems)}

\* LastGames entries.  The first is verbose, 01 '0' 02 'Number' 85 '89'
\* 02 'Draw' 00; a later one is compact: 0x01 + its name, 0x08, the number,
\* 0x09, the draw bytes and the 0x00 that ends them.
GameVerbose ==
    Named(1, <<48>>) \o Named(2, N_Number) \o <<133, 56, 57>>
    \o Named(2, N_Draw) \o <<0>>
GameCompact(name, number, draw) ==
    Named(1, name) \o <<8>> \o number \o <<9>> \o draw \o <<0>>
GameEntries ==
    {GameCompact(<<49>>, <<133, 56, 56>>, <<58>>),
     GameCompact(<<50>>, <<65>>, <<49, 50>>)}
\* compact entries without the 0x08, or without the 0x09 after the number
GamesBad ==
    {Named(1, <<51>>) \o <<65, 133, 56, 56, 9, 58, 0>>,
     Named(1, <<51>>),
     Named(1, <<51>>) \o <<8, 133, 56, 56, 0>>,
     Named(1, <<51>>) \o <<8, 34, 130, 54, 23, 58, 0>>,
     Named(1, <<51>>) \o <<8, 129, 53, 0>>,
     Named(1, <<51>>) \o <<8, 129, 65, 0>>}
LastGamesInputs ==
    {Whole("lastgames", <<GameVerbose>> \o es \o <<l, r>>) :
        es \in SeqsUpTo(GameEntries, MaxItems - 1),
        l \in {<<>>} \cup GamesBad, r \in ListRests}

\* A LastGames list whose first entry has the Draw run `run` after the field
\* names n1 and n2: the entry alone, or followed by the compact entry
\* 01 '1' 08 85 '88' 09 ':' 00; then nothing or the 0x00 that closes the list.
VerboseEntry(n1, n2, run) ==
    Named(1, <<48>>) \o Named(2, n1) \o <<133, 56, 57>> \o Named(2, n2)
    \o run \o <<0>>
\* '', '5', '12', 'A', '1A', ' ', 'A ', ' 7'
DrawRuns ==
    {<<>>, <<53>>, <<49, 50>>, <<65>>, <<49, 65>>, <<32>>, <<65, 32>>,
     <<32, 55>>}
VerboseInputs ==
    {Whole("verbose", <<VerboseEntry(ns[1], ns[2], run), e, r>>) :
        ns \in {<<N_Number, N_Draw>>, <<N_Draw, N_Type>>},
        run \in DrawRuns,
        e \in {<<>>, GameCompact(<<49>>, <<133, 56, 56>>, <<58>>)},
        r \in {<<>>, <<0>>}}

\* A LastGames list of the verbose entry and one compact entry whose Draw is
\* the single byte b: '5', ':', 'A', 0x1A, a blank, a line feed, 0xC8.
CompactDrawBytes == {53, 58, 65, 26, 32, 10, 200}
CompactInputs ==
    {Whole("compact", <<GameVerbose, GameCompact(<<49>>, <<133, 56, 56>>, <<b>>),
                        r>>) :
        b \in CompactDrawBytes, r \in {<<>>, <<0>>}}

\* An info frame with its four sub-lists, LastGames, Hot, Cold and Hits, each
\* closed by 0x00, and at most one malformed item, put after the whole
\* entries of one of them.
InfoListName == <<N_LastGames, N_Hot, N_Cold, N_Hits>>
InfoListKind == <<"lastgames", "hotcold", "hotcold", "hits">>
InfoListBytes ==
    <<GameVerbose \o GameCompact(<<49>>, <<133, 56, 56>>, <<58>>),
      HotColdEntry(7, 26, <<16>>, 5) \o HotColdEntry(11, 48, <<16>>, 57),
      HotColdEntry(10, 58, Named(2, <<88>>), 58),
      HitsPositional(7, 58) \o HitsExplicit(<<76, 111>>, 96)>>
InfoListBad == <<GamesBad, HotColdBad, HotColdBad, HitsBad>>
\* the malformed item bad after the entries of sub-list at (none: at = 0)
InfoParts(id, at, bad) ==
    <<InfoHead(id),
      Named(1, InfoListName[1]) \o InfoListBytes[1],
      IF at = 1 THEN bad ELSE <<>>,
      <<0>> \o Named(1, InfoListName[2]) \o InfoListBytes[2],
      IF at = 2 THEN bad ELSE <<>>,
      <<0>> \o Named(1, InfoListName[3]) \o InfoListBytes[3],
      IF at = 3 THEN bad ELSE <<>>,
      <<0>> \o Named(1, InfoListName[4]) \o InfoListBytes[4],
      IF at = 4 THEN bad ELSE <<>>,
      <<0, 0>>>>
InfoListInputs ==
    {Whole("info", InfoParts(id, 0, <<>>)) : id \in {<<15, 60, 127>>, <<1, 0, 0>>}}
    \cup UNION {{Whole("info", InfoParts(id, at, bad)) :
                    id \in {<<15, 60, 127>>, <<1, 0, 0>>}, bad \in InfoListBad[at]} :
                at \in 1..4}

\* A frame named 'data', which deserialize() has no parser for, followed by
\* one or two well-formed frames.  Its body is empty, or holds one field
\* closed by 0x00: Type="Sp", ID=(id), Type='A"B', Number=34 (0x20 0x22), or
\* an ID and a nested object named 'event'.
UnknownBodies ==
    {<<>>,
     Named(2, N_Type) \o <<138, 83, 112, 0>>,
     Named(2, N_ID) \o <<34, 130, 54, 23, 0>>,
     Named(2, N_Type) \o <<138, 65, 34, 66, 0>>,
     Named(2, N_Number) \o <<32, 34, 0>>,
     Named(2, N_ID) \o <<34, 130, 54, 23>> \o Named(1, N_event) \o <<0, 0>>}
UnknownInputs ==
    {Whole("unknown", <<Frame(<<1, 2, 3>>, N_data, body)>> \o fs) :
        body \in UnknownBodies,
        fs \in SeqsUpTo(LibraryFrames(Library), 2) \ {<<>>}}

\* A frame with the byte 0xFF, which no UTF-8 text holds, in a name: the
\* top-level name ('ev\xFFent', '\xFF'), a field name ('Ty\xFFpe') or the
\* name of a nested object ('Mar\xFFket'); then one well-formed frame.
BadNameFrames ==
    {Frame(<<1, 2, 3>>, <<101, 118, 255, 101, 110, 116>>, <<0>>),
     Frame(<<1, 2, 3>>, <<255>>, <<0>>),
     Frame(<<1, 2, 3>>, N_event,
           Named(2, <<84, 121, 255, 112, 101>>) \o <<138, 83, 112, 0>>),
     Frame(<<1, 2, 3>>, N_event,
           Named(1, <<77, 97, 114, 255, 107, 101, 116>>)
           \o Named(1, N_Win) \o Named(2, N_Odds) \o <<130, 51, 54, 0>>
           \o <<0, 0>>)}
BadNameInputs ==
    {Whole("badname", <<f, g>>) :
        f \in BadNameFrames, g \in LibraryFrames(Library)}

\* An event frame whose Market object holds up to MaxItems + 1 tokens:
\* fields A and B (0x20 values), nested objects X and A, the 0x00 that
\* closes an object, and a 0x0C repeat.  Names come back, so that a key is
\* assigned twice, and an object can have the name of a field.
ObjTokens ==
    {<<2, 1, 65, 32, 1>>, <<2, 1, 66, 32, 2>>, <<1, 1, 88>>, <<1, 1, 65>>,
     <<0>>, <<12, 32, 9>>}
MarketInputs ==
    {Whole("markets", <<Frame(<<1, 2, 3>>, N_event, Named(1, N_Market))>> \o ts) :
        ts \in SeqsUpTo(ObjTokens, MaxItems + 1)}

\* the same lists of whole entries, given to a UnifiedParser
UnifiedInputs == ListInputs("unified", HotColdEntries, {<<>>}, {<<>>, <<0>>, <<1>>})

\* A Hits list of two entries, the hits of the first being the run `run`:
\* 07 10 run 00 | 0A 10 ':' 00.
HitsRuns == {<<65>>, <<58>>, <<49, 50>>, <<49, 50, 51>>}
HitsRunInputs ==
    {Whole("hitsrun", <<<<7, 16>>, run, <<0>>, HitsPositional(10, 58)>>) :
        run \in HitsRuns}

\* The body of an object given to a UnifiedParser: up to MaxItems tokens
\* out of fields, children, repeats, bytes that are no marker and a close,
\* the values being of every kind _parse_value knows:
\*   A = 22 01 02 03      B = 85 ' 8 ' (stops at the next marker)
\*   C = 81 '12' 00       D = 81 00 (the empty run)
\*   E = 81 'x' 00        F = 20 01 (the 0x20 is removed by the constructor)
\*   T = 07 and six bytes and two more
UnifiedTokens ==
    {<<2, 1, 65, 34, 1, 2, 3>>, <<2, 1, 66, 133, 32, 56, 32>>,
     <<2, 1, 67, 129, 49, 50, 0>>, <<2, 1, 68, 129, 0>>,
     <<2, 1, 69, 129, 120, 0>>, <<2, 1, 70, 32, 1>>,
     <<2, 1, 84, 7, 1, 2, 3, 4, 5, 6, 0, 0>>,
     <<1, 1, 88>>, <<0>>, <<12, 133, 57>>, <<12, 7, 9>>, <<7>>, <<2, 0, 5>>}
UnifiedObjectInputs ==
    {Whole("uobject", ts) : ts \in SeqsUpTo(UnifiedTokens, MaxItems)}
    \cup UNION {{Scenario("uobject", <<t>>, n) : n \in 1..(Len(t) - 1)} :
                    t \in UnifiedTokens}

\* An event or info frame with the header id hid whose first field, named
\* ID or X, has the id value bid: '"' hid 01 name 02 field '"' bid, then for
\* an info the ValidFrom field, then the 0x00 that closes the frame.
HeaderIds == {<<1, 2, 3>>, <<0, 0, 1>>, <<255, 255, 255>>}
IdFieldInputs ==
    {Whole("ids", <<<<34>>, hid, Named(1, n), Named(2, f), <<34>>, bid,
                    (IF n = N_info
                     THEN Named(2, N_ValidFrom) \o <<133, 56>> ELSE <<>>)
                    \o <<0>>>>) :
        hid \in HeaderIds, bid \in HeaderIds, n \in {N_event, N_info},
        f \in {N_ID, <<88>>}}

CallInputs ==
    ValueInputs \cup IdValueInputs \cup IdFrameInputs \cup HotColdInputs
    \cup UnifiedInputs \cup HitsInputs \cup Hits7Inputs \cup LastGamesInputs
    \cup InfoListInputs \cup UnknownInputs \cup BadNameInputs
    \cup MarketInputs \cup IntRunInputs \cup NumberFrameInputs
    \cup VerboseInputs \cup CompactInputs \cup HitsRunInputs
    \cup IdFieldInputs \cup UnifiedObjectInputs

InitCalls == InitAt({1}, CallInputs, "call")

Called(i, kinds) == pc[i] = "call" /\ input[i].kind \in kinds

\* The call ends: the cursor is where the method left it, and the method
\* returned val or let the exception e escape.
Outcome(i, val, pos, e) ==
    /\ Seek(i, pos)
    /\ IF e = "none"
       THEN /\ ret' = [ret EXCEPT ![i] = val]
            /\ pc' = [pc EXCEPT ![i] = "returned"]
            /\ UNCHANGED exc
       ELSE /\ exc' = [exc EXCEPT ![i] = e]
            /\ pc' = [pc EXCEPT ![i] = "raised"]
            /\ UNCHANGED ret

\* self._parse_value()
CallParseValue(i) ==
    /\ Called(i, {"value", "idvalue"})
    /\ \E v \in {ParseValue(Buf(i), Pos(i))} : Outcome(i, v.val, v.pos, v.exc)
    /\ UNCHANGED <<self, objects, input, trace>>

\* self.deserialize(), from its first statement to its return
CallDeserialize(i) ==
    /\ Called(i, {"idframe", "info", "unknown", "badname", "markets",
                  "number", "ids"})
    /\ \E r \in {Deserialize(Buf(i))} :
          /\ Outcome(i, PyList(r.objects), r.pos, r.exc)
          /\ objects' = [objects EXCEPT ![i] = r.objects]
    /\ UNCHANGED <<self, input, trace>>

\* self._parse_hot_cold_list()
CallHotCold(i) ==
    /\ Called(i, {"hotcold"})
    /\ \E r \in {ParseHotColdList(Buf(i), Pos(i))} :
          /\ Outcome(i, PyList(r.val), r.pos, r.exc)
          /\ trace' = [trace EXCEPT ![i] = r.log]
    /\ UNCHANGED <<self, objects, input>>

\* self._parse_hits_object()
CallHits(i) ==
    /\ Called(i, {"hits", "hits7", "hitsrun"})
    /\ \E r \in {ParseHitsObject(Buf(i), Pos(i))} :
          Outcome(i, PyList(r.val), r.pos, r.exc)
    /\ UNCHANGED <<self, objects, input, trace>>

\* self._parse_last_games_list()
CallLastGames(i) ==
    /\ Called(i, {"lastgames", "verbose", "compact"})
    /\ \E r \in {ParseLastGamesList(Buf(i), Pos(i))} :
          Outcome(i, PyList(r.val), r.pos, r.exc)
    /\ UNCHANGED <<self, objects, input, trace>>

\* UnifiedParser._parse_hot_cold_list()
CallUnifiedHotCold(i) ==
    /\ Called(i, {"unified"})
    /\ \E r \in {UnifiedParseHotColdList(Buf(i), Pos(i))} :
          Outcome(i, PyDict(r.val), r.pos, r.exc)
    /\ UNCHANGED <<self, objects, input, trace>>

\* UnifiedParser._parse_generic_object()
CallUnifiedObject(i) ==
    /\ Called(i, {"uobject"})
    /\ \E r \in {UnifiedParseGenericObject(Buf(i), Pos(i), PyNone)} :
          Outcome(i, [obj |-> PyDict(r.obj), last |-> r.last], r.pos, r.exc)
    /\ UNCHANGED <<self, objects, input, trace>>

NextCalls ==
    \/ \E i \in DOMAIN pc : CallParseValue(i)
    \/ \E i \in DOMAIN pc : CallDeserialize(i)
    \/ \E i \in DOMAIN pc : CallHotCold(i)
    \/ \E i \in DOMAIN pc : CallHits(i)
    \/ \E i \in DOMAIN pc : CallLastGames(i)
    \/ \E i \in DOMAIN pc : CallUnifiedHotCold(i)
    \/ \E i \in DOMAIN pc : CallUnifiedObject(i)

SpecCalls == InitCalls /\ [][NextCalls]_vars

----------------------------------------------------------------------------
(* The loops, one iteration at a time.  A Deserializer is made from a      *)
(* buffer and deserialize() or one of the methods with a loop is entered   *)
(* with the cursor at the start of the buffer.  Each action is one         *)
(* iteration of the loop of that method, the calls it makes included;      *)
(* ret[i] holds the locals of the method between two iterations.           *)

FrameKinds == {"resync", "cut", "info", "unknown"}

\* frame + three junk bytes + frame, the junk holding a '"'
ResyncLoopInputs ==
    {Whole("resync", <<f1, j, f2>>) :
        f1 \in LibraryFrames(Library), f2 \in LibraryFrames(Library),
        j \in {<<65, 65, 34>>, <<34, 1, 34>>, <<0, 34, 65>>}}
\* the body of a Market object: up to MaxItems tokens of ObjTokens
ObjLoopInputs ==
    {Whole("objloop", ts) : ts \in SeqsUpTo(ObjTokens, MaxItems)}
\* the body of an object that starts with a 0x0C, no name being in scope:
\* the bytes after it would be a value (20 09, 85 '8' 00, 22 01 02 03), or
\* are a field or the close of the object
AfterRepeat ==
    {<<32, 9>>, <<133, 56, 0>>, <<2, 1, 65, 32, 1>>, <<0>>, <<34, 1, 2, 3>>,
     <<12, 32, 9>>}
RepeatFirstInputs ==
    {Whole("objloop", <<<<12>>, v, <<0>>>>) : v \in AfterRepeat}
\* the body of an object with a byte that is no marker, first or after the
\* field A = 1, and then the close of the object, the field B = 2 or a
\* repeat with the value 9
OtherMarkers == {3, 7, 32, 34, 65, 133, 255}
OtherMarkerInputs ==
    {Whole("objloop", <<pre, <<b>>, post>>) :
        pre \in {<<>>, <<2, 1, 65, 32, 1>>}, b \in OtherMarkers,
        post \in {<<0>>, <<2, 1, 66, 32, 2>>, <<12, 32, 9>>}}
\* Bodies of an object with a field of empty name (02 00 20 05), before or
\* after the field A, in the object or in its child X, and 0x0C repeats
\* after it; with each body the map and the name in scope it is decoded to.
EmptyNameCases ==
    <<[parts |-> <<<<2, 1, 65, 32, 1>>, <<2, 0, 32, 5>>, <<12, 32, 9>>, <<0>>>>,
       obj |-> <<<<<<65>>, <<"int", 1>>>>, <<<<>>, <<"int", 5>>>>>>,
       last |-> <<"str", <<>>>>],
      [parts |-> <<<<2, 0, 32, 5>>, <<12, 32, 9>>, <<12, 32, 7>>, <<0>>>>,
       obj |-> <<<<<<>>, <<"int", 5>>>>>>,
       last |-> <<"str", <<>>>>],
      [parts |-> <<<<2, 1, 65, 32, 1>>, <<2, 0, 32, 5>>, <<12, 32, 9>>,
                   <<2, 1, 66, 32, 2>>, <<12, 32, 7>>, <<0>>>>,
       obj |-> <<<<<<65>>, <<"int", 1>>>>, <<<<>>, <<"int", 5>>>>,
                 <<<<66>>, <<"int", 7>>>>>>,
       last |-> <<"str", <<66>>>>],
      [parts |-> <<<<2, 1, 65, 32, 1>>,
                   <<1, 1, 88, 2, 0, 32, 5, 12, 32, 9, 0>>, <<12, 32, 7>>,
                   <<0>>>>,
       obj |-> <<<<<<65>>, <<"int", 7>>>>,
                 <<<<88>>, <<"dict", <<<<<<>>, <<"int", 5>>>>>>>>>>>>,
       last |-> <<"str", <<65>>>>],
      [parts |-> <<<<1, 1, 88, 2, 0, 32, 5, 0>>, <<12, 32, 9>>, <<0>>>>,
       obj |-> <<<<<<88>>, <<"dict", <<<<<<>>, <<"int", 5>>>>>>>>>>>>,
       last |-> <<"none">>],
      [parts |-> <<<<2, 1, 65, 32, 1>>, <<2, 0, 32, 5>>,
                   <<1, 1, 88, 12, 32, 9, 0>>, <<0>>>>,
       obj |-> <<<<<<65>>, <<"int", 1>>>>, <<<<>>, <<"int", 5>>>>,
                 <<<<88>>, <<"dict", <<>>>>>>>>,
       last |-> <<"str", <<>>>>]>>
EmptyNameInputs ==
    {Whole("objloop", EmptyNameCases[k].parts) : k \in DOMAIN EmptyNameCases}
\* Hot / Cold and Hits lists as in HotColdInputs and HitsInputs, of fewer
\* kinds of entry
HotColdLoopInputs ==
    ListInputs("hotcold",
               {HotColdEntry(10, 58, Named(2, <<88>>), 58),
                HotColdEntry(1, 26, <<16>>, 5), HotColdPadded},
               {<<>>} \cup HotColdOpen \cup HotColdBad, ListRests)
HitsLoopInputs ==
    ListInputs("hits", {HitsPositional(7, 58), HitsExplicit(<<76, 111>>, 96)},
               {<<>>} \cup HitsOpen \cup HitsBad, ListRests)
\* the body of an info frame after its ID and ValidFrom: the sub-lists of
\* InfoListInputs, and sub-lists whose malformed item has the name of a
\* sub-list
InfoLoopInputs ==
    {Whole("infoloop", Tail(sc.parts)) : sc \in InfoListInputs}
    \cup {Whole("infoloop", <<Named(1, N_Hits) \o HitsPositional(11, 57),
                             Named(1, h), t>>) :
             h \in {N_Hits, N_Hot, N_LastGames, <<55>>},
             t \in {<<>>, <<0>>, <<0, 0, 65>>, HitsPositional(7, 58)}}
    \cup {Whole("infoloop", <<Named(1, N_LastGames) \o GameVerbose,
                             Named(1, g), t>>) :
             g \in {N_LastGames, N_Draw},
             t \in {<<>>, <<0>>, GameVerbose,
                    <<8, 133, 56, 56, 0>> \o Named(1, N_Hits)}}

\* the body of an info frame with two LastGames lists, next to each other or
\* with a 0x00 between them: the first has a verbose entry and perhaps a
\* compact one, the second starts with a verbose entry that declares other
\* field names, with a compact entry, or with a verbose and a compact entry
SecondLists ==
    {VerboseEntry(N_Draw, N_Type, <<53>>),
     GameCompact(<<49>>, <<133, 56, 56>>, <<58>>),
     GameVerbose \o GameCompact(<<49>>, <<133, 56, 56>>, <<58>>)}
TwoListInputs ==
    {Whole("infoloop", <<Named(1, N_LastGames) \o GameVerbose \o c, s,
                         Named(1, N_LastGames), t>>) :
        c \in {<<>>, GameCompact(<<49>>, <<133, 56, 56>>, <<58>>)},
        s \in {<<>>, <<0>>}, t \in SecondLists}

\* A LastGames list of no, one or two games, then 0x01 and the name of
\* another sub-list, then nothing or what would make that name one more
\* game: 08 85 '88' 09 ':' 00, or two declared fields.
SubListNames == {N_Hot, N_Cold, N_Hits, N_PreviousResults}
GamesBefore ==
    {<<>>, GameVerbose,
     GameVerbose \o GameCompact(<<49>>, <<133, 56, 56>>, <<58>>)}
GameLikeRests ==
    {<<>>, <<8, 133, 56, 56, 9, 58, 0>>,
     Named(2, N_Number) \o <<133, 56, 57>> \o Named(2, N_Draw) \o <<0>>}
GamesEnderInputs ==
    {Whole("lastgames", <<g, Named(1, n), r>>) :
        g \in GamesBefore, n \in SubListNames, r \in GameLikeRests}
\* A Hits list of no or one entry, closed by 0x00 or not, then 0x01 and the
\* name PreviousResults, then nothing, 0x00, or what would make that name
\* the key of one more entry: 10 '5' 00.
HitsBefore == {<<>>, HitsPositional(7, 58), <<11, 16, 57>>}
HitsLikeRests == {<<>>, <<0>>, <<16, 53, 0>>}
HitsEnderInputs ==
    {Whole("hits", <<h, Named(1, N_PreviousResults), r>>) :
        h \in HitsBefore, r \in HitsLikeRests}
\* The same inside the body of an info frame: a LastGames list followed by
\* a Hot, Cold or Hits list of one entry or by PreviousResults, and a Hits
\* list followed by PreviousResults.
SubListAfter(n) ==
    CASE n \in {N_Hot, N_Cold} -> HotColdEntry(7, 26, <<16>>, 5)
      [] n = N_Hits -> HitsPositional(7, 58)
      [] n = N_PreviousResults -> <<0>>
InfoEnderInputs ==
    {Whole("infoloop", <<Named(1, N_LastGames) \o g, Named(1, n),
                         SubListAfter(n)>>) :
        g \in GamesBefore, n \in SubListNames}
    \cup {Whole("infoloop", <<Named(1, N_Hits) \o h,
                              Named(1, N_PreviousResults), r>>) :
             h \in HitsBefore, r \in HitsLikeRests}

\* The body of an info frame that ends with a Hits list and
\* PreviousResults, closed by one 0x00, by none or by two, and the frame
\* that follows it.
PreviousResultsInputs ==
    {Whole("infoloop", <<Named(1, N_Hits) \o HitsPositional(7, 58),
                         Named(1, N_PreviousResults), t,
                         Frame(<<4, 5, 6>>, N_event, <<0>>)>>) :
        t \in {<<0>>, <<>>, <<0, 0>>}}

LoopInputs ==
    ResyncLoopInputs \cup CutInputs \cup InfoListInputs \cup UnknownInputs
    \cup ObjLoopInputs \cup InfoLoopInputs \cup TwoListInputs
    \cup LastGamesInputs \cup GamesEnderInputs \cup HitsEnderInputs
    \cup InfoEnderInputs \cup PreviousResultsInputs \cup RepeatFirstInputs
    \cup OtherMarkerInputs \cup EmptyNameInputs
    \cup HotColdLoopInputs \cup HitsLoopInputs

InitLoops == InitAt({1}, LoopInputs, "call")

\* The locals a method starts its loop with.
LoopLocals(kind) ==
    CASE kind = "objloop" -> ObjStep(TRUE, <<>>, PyNone, 0, "none", <<>>)
      [] kind = "infoloop" -> ListStep(TRUE, NoLists, 0, "none")
      [] kind = "lastgames" -> GamesStep(TRUE, <<>>, 0, "none", <<>>)
      [] kind = "hotcold" ->
           HotColdStep(TRUE, <<>>, 0, "none", DefaultFieldName, <<>>)
      [] kind = "hits" -> ListStep(TRUE, <<>>, 0, "none")

\* The method is entered: deserialize() for a buffer of frames, else the
\* method of the scenario, whose locals are initialised.
Enter(i) ==
    /\ pc[i] = "call"
    /\ IF input[i].kind \in FrameKinds
       THEN /\ pc' = [pc EXCEPT ![i] = "loop"]
            /\ UNCHANGED ret
       ELSE /\ pc' = [pc EXCEPT ![i] = "iter"]
            /\ ret' = [ret EXCEPT ![i] = LoopLocals(input[i].kind)]
    /\ UNCHANGED <<stream, self, objects, exc, input, trace>>

Iterating(i, kind) == pc[i] = "iter" /\ input[i].kind = kind

\* An iteration left st: the loop goes on, or the method returns or lets an
\* exception escape.
Iterated(i, st) ==
    /\ Seek(i, st.pos)
    /\ ret' = [ret EXCEPT ![i] = st]
    /\ IF st.more THEN UNCHANGED <<pc, exc>>
       ELSE IF st.exc = "none"
       THEN pc' = [pc EXCEPT ![i] = "returned"] /\ UNCHANGED exc
       ELSE /\ pc' = [pc EXCEPT ![i] = "raised"]
            /\ exc' = [exc EXCEPT ![i] = st.exc]
    /\ UNCHANGED <<self, objects, input, trace>>

\* _parse_generic_object_dict
IterObject(i) ==
    /\ Iterating(i, "objloop")
    /\ Iterated(i, ObjIter(Buf(i), Pos(i), ret[i].obj, ret[i].last, ret[i].log))

\* _parse_info_object
IterInfo(i) ==
    /\ Iterating(i, "infoloop")
    /\ Iterated(i, InfoIter(Buf(i), Pos(i), ret[i].val))

\* _parse_last_games_list
IterLastGames(i) ==
    /\ Iterating(i, "lastgames")
    /\ Iterated(i, LastGamesIter(Buf(i), Pos(i), ret[i].val, ret[i].fields))

\* _parse_hot_cold_list
IterHotCold(i) ==
    /\ Iterating(i, "hotcold")
    /\ Iterated(i, HotColdIter(Buf(i), Pos(i), ret[i].val, ret[i].field_name,
                               ret[i].log))

\* _parse_hits_object
IterHits(i) ==
    /\ Iterating(i, "hits")
    /\ Iterated(i, HitsIter(Buf(i), Pos(i), ret[i].val))

NextLoops ==
    \/ \E i \in DOMAIN pc : Enter(i)
    \/ \E i \in DOMAIN pc : ScanByte(i)
    \/ \E i \in DOMAIN pc : Resync(i)
    \/ \E i \in DOMAIN pc : DecodeFrame(i)
    \/ \E i \in DOMAIN pc : SkipFrame(i)
    \/ \E i \in DOMAIN pc : Raise(i)
    \/ \E i \in DOMAIN pc : Return(i)
    \/ \E i \in DOMAIN pc : IterObject(i)
    \/ \E i \in DOMAIN pc : IterInfo(i)
    \/ \E i \in DOMAIN pc : IterLastGames(i)
    \/ \E i \in DOMAIN pc : IterHotCold(i)
    \/ \E i \in DOMAIN pc : IterHits(i)

\* A call that has been made runs: nothing but the interpreter decides when
\* the next iteration of a loop starts.
SpecLoops == InitLoops /\ [][NextLoops]_vars /\ WF_vars(NextLoops)

----------------------------------------------------------------------------
(* Properties.  They speak of an instance i through the scenario its       *)
(* buffer was built from (input[i]), its state and, for the generic object *)
(* parser, the history of the last frame it handled (trace[i]).            *)

Finished(i) == pc[i] \in {"done", "raised"}
Last(s) == s[Len(s)]

\* deserialize() of instance i's buffer, run on its own from start to end.
Alone(i) == Deserialize(BufferOf(input[i]))

\* The name in the header of a well-formed frame.
FrameName(f) == SubSeq(f, 7, 6 + f[6])
\* The offset of the body of a well-formed frame.
BodyStart(f) == 6 + f[6]

RECURSIVE TotalLen(_)
TotalLen(parts) ==
    IF parts = <<>> THEN 0 ELSE Len(Head(parts)) + TotalLen(Tail(parts))

\* C1: for every input buffer deserialize returns a list of records and
\* never raises.  (Violated: an IndexError, ValueError, UnicodeDecodeError
\* or AttributeError escapes for some buffers.)
C1_NeverRaises == \A i \in DOMAIN pc : pc[i] # "raised"

\* C2: for every well-formed event frame cut at any offset inside its body,
\* deserialize does not raise and returns the Event with what was decoded
\* before the cut.  (Violated: a cut right after a 0x01 or 0x02 marker byte
\* raises IndexError.)
C2_CutEventReturned ==
    \A i \in DOMAIN pc :
        /\ input[i].kind = "cut"
        /\ FrameName(input[i].parts[1]) = N_event
        /\ input[i].cut >= BodyStart(input[i].parts[1])
        /\ Finished(i)
        => /\ pc[i] = "done"
           /\ Len(objects[i]) = 1
           /\ objects[i][1].cls = "Event"

\* C3: for well-formed frames F1, F2 and any three junk bytes J,
\* deserialize(F1 + J + F2) returns exactly the record of F1 followed by
\* the record of F2.  (Violated: junk such as 0x41 0x41 0x22 makes the
\* scanner take the start of F2 for a frame id and F2 is lost.)
C3_ResyncBothDecoded ==
    \A i \in DOMAIN pc :
        input[i].kind = "resync" /\ Finished(i)
        => /\ pc[i] = "done"
           /\ objects[i] = Deserialize(input[i].parts[1]).objects
                           \o Deserialize(input[i].parts[3]).objects

\* C4: for a buffer that is the concatenation of k well-formed frames, each
\* closed by its own terminator, deserialize returns exactly k records, the
\* j-th being the record of the j-th frame decoded on its own (an Event for
\* 'event', an Info for 'info'); after j frames the cursor stands exactly
\* at the start of frame j+1, so no frame consumes a byte of the next.
C4_ConcatInOrder ==
    \A i \in DOMAIN pc :
        input[i].kind = "concat"
        => /\ pc[i] # "raised"
           /\ Len(objects[i]) <= Len(input[i].parts)
           /\ Pos(i) = TotalLen(SubSeq(input[i].parts, 1, Len(objects[i])))
           /\ pc[i] = "done" => Len(objects[i]) = Len(input[i].parts)
           /\ \A j \in 1..Len(objects[i]) :
                 /\ objects[i][j] = Deserialize(input[i].parts[j]).objects[1]
                 /\ objects[i][j].cls =
                       (IF FrameName(input[i].parts[j]) = N_event THEN "Event"
                        ELSE "Info")

C4_Witness ==
    \E i \in DOMAIN pc :
        /\ input[i].kind = "concat"
        /\ input[i].parts = <<InfoGames, EventMarkets>>
        /\ pc[i] = "done"
        /\ Len(objects[i]) = 2
        /\ objects[i][1].cls = "Info"
        /\ objects[i][2].cls = "Event"

\* The entries of a history t before index r that declare a field.
FieldsBefore(t, r) == {k \in 1..(r - 1) : t[k].op = "field"}
\* The nesting depth after entry k of a history.
Depth(t, k) ==
    Cardinality({m \in 1..k : t[m].op = "open"})
    - Cardinality({m \in 1..k : t[m].op = "close"})
\* The fields declared before r in the container of r or in an ancestor of
\* it: those whose container has not been closed by r.
FieldsOfAncestors(t, r) ==
    {k \in FieldsBefore(t, r) : \A m \in k..r : Depth(t, m) >= Depth(t, k)}
Greatest(S) == CHOOSE k \in S : \A m \in S : m <= k

\* C5 as stated: every 0x0C for which a name is in scope stores its value
\* under the nearest preceding field name among those declared in the
\* current container or an ancestor of it.  (Violated: a name declared in
\* an already closed child or sibling is used.)
C5_NearestOfAncestors ==
    \A i \in DOMAIN pc : \A r \in 1..Len(trace[i]) :
        trace[i][r].op = "repeat"
        => /\ FieldsOfAncestors(trace[i], r) # {}
           /\ trace[i][r].name =
                 trace[i][Greatest(FieldsOfAncestors(trace[i], r))].name

\* C5 amended: every 0x0C for which a name is in scope stores its value
\* under the field name declared nearest before it in the frame, whichever
\* container declared it (the current one, an ancestor, or a child or
\* sibling closed before), all names declared before it being non-empty.
C5_NearestInStream ==
    \A i \in DOMAIN pc : \A r \in 1..Len(trace[i]) :
        /\ trace[i][r].op = "repeat"
        /\ \A k \in FieldsBefore(trace[i], r) : trace[i][k].name # <<>>
        => /\ FieldsBefore(trace[i], r) # {}
           /\ trace[i][r].name =
                 trace[i][Greatest(FieldsBefore(trace[i], r))].name

C5_Witness ==
    \E i \in DOMAIN pc : \E r \in 1..Len(trace[i]) :
        /\ pc[i] = "done"
        /\ trace[i][r].op = "repeat"
        /\ trace[i][r].name = N_Odds
        /\ FieldsOfAncestors(trace[i], r) # FieldsBefore(trace[i], r)

\* C6: a 0x0C met before any field name has been declared in the frame
\* raises nothing and stores nothing: the parser reads no value for it and
\* goes on with the next byte, and the event decoded from the frame
\* event { 0x0C 0x81 "2" } has no field set and no market.
C6_BareRepeatSkipped ==
    \A i \in DOMAIN pc :
        /\ \A r \in 1..Len(trace[i]) :
              /\ trace[i][r].op \in {"repeat", "skip", "raise"}
              /\ Buf(i)[trace[i][r].at + 1] = 12
              /\ FieldsBefore(trace[i], r) = {}
              => trace[i][r].op = "skip"
        /\ \A j \in 1..Len(objects[i]) :
              input[i].kind = "concat" /\ input[i].parts[j] = EventBareRepeat
              => objects[i][j] = Event(PyInt(1), <<>>, <<>>)

C6_Witness ==
    \E i \in DOMAIN pc :
        /\ pc[i] = "done"
        /\ input[i].parts = <<EventNumber, EventBareRepeat>>
        /\ Len(objects[i]) = 2
        /\ trace[i] # <<>>
        /\ trace[i][1].op = "skip"
        /\ objects[i][2].number = PyNone

\* C7: in event { ... Market { Win { Odds = 0x82 "36" } Red { 0x0C 0x81 "2"
\* } } } the name Odds declared in Win is in scope after Win closes, so the
\* 0x0C in Red stores 2 under Odds in Red's own map, and Win keeps Odds =
\* 36.
C7_SiblingRepeat ==
    \A i \in DOMAIN pc : \A j \in 1..Len(objects[i]) :
        input[i].kind = "concat" /\ input[i].parts[j] = EventMarkets
        => objects[i][j].markets =
              <<Market(N_Win, PyDict(<<<<N_Odds, PyInt(36)>>>>)),
                Market(N_Red, PyDict(<<<<N_Odds, PyInt(2)>>>>))>>

C7_Witness ==
    \E i \in DOMAIN pc :
        /\ input[i].kind = "concat"
        /\ input[i].parts = <<EventMarkets>>
        /\ pc[i] = "done"
        /\ Len(objects[i]) = 1
        /\ Len(objects[i][1].markets) = 2
        /\ objects[i][1].markets[2].data = PyDict(<<<<N_Odds, PyInt(2)>>>>)

\* C8: the record decoded for a frame depends only on the frame's bytes:
\* two buffers that end with the same well-formed frame, after different
\* sequences of well-formed frames, yield the same record for it.
C8_FrameLocal ==
    \A i \in DOMAIN pc : \A j \in DOMAIN pc :
        /\ input[i].kind = "concat" /\ input[j].kind = "concat"
        /\ input[i].parts # <<>> /\ input[j].parts # <<>>
        /\ Last(input[i].parts) = Last(input[j].parts)
        /\ pc[i] = "done" /\ pc[j] = "done"
        => /\ objects[i] # <<>> /\ objects[j] # <<>>
           /\ Last(objects[i]) = Last(objects[j])

C8_Witness ==
    /\ input[1].parts = <<EventNumber, EventBareRepeat>>
    /\ input[2].parts = <<EventBareRepeat>>
    /\ pc[1] = "done" /\ pc[2] = "done"
    /\ Len(objects[1]) = 2 /\ Len(objects[2]) = 1
    /\ objects[1][2] = objects[2][1]

C10_Isolated ==
    \A i \in DOMAIN pc : \E alone \in {Alone(i)} :
        /\ Buf(i) = BufferOf(input[i])
        /\ Len(objects[i]) <= Len(alone.objects)
        /\ objects[i] = SubSeq(alone.objects, 1, Len(objects[i]))
        /\ Finished(i) => objects[i] = alone.objects /\ exc[i] = alone.exc

C10_Witness ==
    /\ input[1].parts = <<EventNumber, InfoGames>>
    /\ input[2].parts = <<EventNumber, <<65, 65, 34>>, EventBareRepeat>>
    /\ pc[1] = "loop" /\ Len(objects[1]) = 1
    /\ pc[2] = "done" /\ Len(objects[2]) = 1

\* C11: _parse_value returns a value and never raises, whatever the marker
\* byte and whatever bytes follow it, non-digit bytes after 0x81 / 0x82 and
\* a buffer that ends inside the value included.  (Violated: the text after
\* 0x81 / 0x82 goes to int(), which raises ValueError when it is not a
\* decimal literal.)
C11_ParseValueReturns ==
    \A i \in DOMAIN pc : input[i].kind = "value" => pc[i] # "raised"

\* The three id bytes of an "idvalue" or "idframe" scenario.
IdOf(sc) == IF Len(sc.parts) >= 2 THEN sc.parts[2] ELSE <<>>

\* C12: the id decoded from the three bytes b0 b1 b2 after a 0x22, be it a
\* frame start or a value marker, is b0 + 256*b1 + 65536*b2, it lies in
\* 0..2^24-1, and exactly three bytes are consumed for it: the value ends
\* at offset 4, and the frame's object marker is read at offset 4, so the
\* empty event that follows is decoded and carries the id.
C12_IdLittleEndian ==
    \A i \in DOMAIN pc : \E id \in {IdOf(input[i])} :
        /\ input[i].kind = "idvalue" /\ pc[i] # "call"
           => /\ pc[i] = "returned"
              /\ ret[i] = PyInt(id[1] + 256 * id[2] + 65536 * id[3])
              /\ ret[i][2] \in 0..(2^24 - 1)
              /\ Pos(i) = 4
        /\ input[i].kind = "idframe" /\ pc[i] # "call"
           => /\ pc[i] = "returned"
              /\ Len(objects[i]) = 1
              /\ objects[i][1].cls = "Event"
              /\ objects[i][1].id = PyInt(id[1] + 256 * id[2] + 65536 * id[3])
              /\ objects[i][1].id[2] \in 0..(2^24 - 1)
              /\ Pos(i) = Len(Buf(i))
        /\ input[i].kind \in {"idvalue", "idframe"}
           /\ id = <<130, 54, 23>> /\ pc[i] = "returned"
           => \/ ret[i] = PyInt(1521282)
              \/ ret[i] = PyList(<<Event(PyInt(1521282), <<>>, <<>>)>>)

C12_Witness ==
    \E i \in DOMAIN pc :
        /\ input[i].kind = "idframe"
        /\ IdOf(input[i]) = <<130, 54, 23>>
        /\ pc[i] = "returned"
        /\ objects[i] = <<Event(PyInt(1521282), <<>>, <<>>)>>

\* The bytes of a Hot / Cold entry of the form key, 0x09, draw, marker,
\* hits, 0x00, the marker being 0x10 or 0x02 + length + name.
EntryKey(e) == e[1]
EntryDraw(e) == e[3]
EntryHits(e) == e[Len(e) - 1]
EntryForm(e) ==
    /\ Len(e) >= 6
    /\ e[2] = 9
    /\ \/ e[4] = 16 /\ Len(e) = 6
       \/ e[4] = 2 /\ Len(e) = 7 + e[5]
    /\ e[Len(e)] = 0

\* The item the decoder's single-byte rule makes of such an entry.
ItemOfEntry(e) ==
    HotColdItem(DecodeSingleByteValue(EntryKey(e)),
                DecodeSingleByteValue(EntryDraw(e)),
                DecodeSingleByteValue(EntryHits(e)))

\* A Hot / Cold list of whole entries closed by 0x00 or 0x01 has been
\* decoded by instance i.
HotColdClosed(i) ==
    /\ input[i].kind = "hotcold"
    /\ pc[i] # "call"
    /\ LastPart(input[i]) = <<>>
    /\ Rest(input[i]) # <<>> /\ Rest(input[i])[1] \in {0, 1}
    /\ \A j \in 1..Len(Entries(input[i])) : EntryForm(Entries(input[i])[j])

\* n items, the j-th made of the j-th entry, and the cursor on the byte
\* that closes the list.
HotColdAllItems(i) ==
    \E es \in {Entries(input[i])} :
        /\ pc[i] = "returned"
        /\ ret[i] = PyList([j \in 1..Len(es) |-> ItemOfEntry(es[j])])
        /\ Pos(i) = TotalLen(es)
        /\ Buf(i)[Pos(i) + 1] \in {0, 1}

Declares(e) == e[4] = 2
DeclaredIn(e) == DecodeIgnore(SubSeq(e, 6, 5 + e[5]))
NameInForce(es, j) ==
    One({ IF decl = {} THEN N_Hits ELSE DeclaredIn(es[Greatest(decl)]) :
          decl \in {{k \in 1..j : Declares(es[k])}} })

\* A list of whole entries of the form of C13 has been decoded, by a
\* Deserializer or by a UnifiedParser.
WholeEntriesDecoded(i) ==
    /\ input[i].kind \in {"hotcold", "unified"}
    /\ pc[i] = "returned"
    /\ LastPart(input[i]) = <<>>
    /\ \A j \in 1..Len(Entries(input[i])) :
          /\ EntryForm(Entries(input[i])[j])
          /\ EntryKey(Entries(input[i])[j]) \notin {0, 1}
          /\ EntryDraw(Entries(input[i])[j]) # 32

\* C14: in a Hot / Cold list, once an entry declares a field name (0x02 +
\* length + name), that name is the hits key of that entry and of the
\* entries after it, up to the next declaration; the entries before the
\* first declaration have the key "Hits".  In UnifiedParser the key is the
\* key of the hits value in each item's dict; in Deserializer, whose items
\* store the value in the attribute hits, it is the local field_name.
C14_FieldNamePersists ==
    \A i \in DOMAIN pc : \E es \in {Entries(input[i])} :
        WholeEntriesDecoded(i)
        => /\ input[i].kind = "hotcold"
              => /\ Len(trace[i]) = Len(es)
                 /\ \A j \in 1..Len(es) : trace[i][j].name = NameInForce(es, j)
           /\ input[i].kind = "unified"
              => /\ Len(ret[i][2]) = Len(es)
                 /\ \A j \in 1..Len(es) :
                       /\ ret[i][2][j][1] = j - 1
                       /\ Len(ret[i][2][j][2][2]) = 2
                       /\ ret[i][2][j][2][2][1][1] = N_Draw
                       /\ ret[i][2][j][2][2][2][1] = NameInForce(es, j)

C14_Witness ==
    \E i \in DOMAIN pc :
        /\ WholeEntriesDecoded(i)
        /\ input[i].kind = "unified"
        /\ Entries(input[i]) = <<HotColdEntry(7, 26, <<16>>, 5),
                                 HotColdEntry(10, 58, Named(2, <<88>>), 58),
                                 HotColdEntry(11, 48, <<16>>, 57)>>
        /\ ret[i] = PyDict(<<UnifiedItem(0, 26, N_Hits, 5),
                             UnifiedItem(1, 10, <<88>>, 10),
                             UnifiedItem(2, 0, <<88>>, 9)>>)

\* str(n) for n >= 0, as its code points.
RECURSIVE DecimalString(_)
DecimalString(n) ==
    IF n < 10 THEN <<48 + n>>
    ELSE Append(DecimalString(n \div 10), 48 + (n % 10))

\* The declared key of an explicit Hits entry 0x01 + length + name ...
ExplicitKey(e) == DecodeIgnore(SubSeq(e, 3, 2 + e[2]))

\* A Hits list of 7 positional entries and N explicit ones has been decoded.
Hits7Decoded(i) == input[i].kind = "hits7" /\ pc[i] # "call"

\* 7 + N items were returned, the hits in stream order.
Hits7Count(i) ==
    \E es \in {Entries(input[i])} :
        /\ pc[i] = "returned"
        /\ Len(ret[i][2]) = Len(es)
        /\ \A j \in 1..Len(es) :
              ret[i][2][j].hits = DecodeSingleByteValue(EntryHits(es[j]))

\* The explicit entries carry their declared names as keys.
Hits7ExplicitKeys(i) ==
    \A j \in 8..Len(Entries(input[i])) :
        /\ j <= Len(ret[i][2])
        /\ ret[i][2][j].key = PyStr(ExplicitKey(Entries(input[i])[j]))

\* The positional entries carry the strings of consecutive integers.
Hits7PositionalKeys(i) ==
    \E first \in 0..255 : \A j \in 1..7 :
        /\ j <= Len(ret[i][2])
        /\ ret[i][2][j].key = PyStr(DecimalString(first + j - 1))

\* C15: for a Hits list of 7 positional entries followed by N explicit
\* entries, each ended by 0x00, the decoder emits exactly 7 + N items in
\* stream order; the explicit entries carry their declared names as keys
\* and the positional entries the strings of consecutive integers.
\* (Violated: Deserializer gives a positional entry the integer value of
\* its key byte as key, 7, 7, 10, 11, ... for the captured list.)
C15_HitsKeys ==
    \A i \in DOMAIN pc :
        Hits7Decoded(i)
        => Hits7Count(i) /\ Hits7ExplicitKeys(i) /\ Hits7PositionalKeys(i)

\* Whole entries that _parse_hot_cold_list / _parse_hits_object decode one
\* by one: no key byte 0x00 or 0x01 and no draw byte 0x20 in a Hot / Cold
\* entry.
PlainEntries(sc) ==
    \A j \in 1..Len(Entries(sc)) :
        \/ sc.kind = "hits"
        \/ /\ EntryForm(Entries(sc)[j])
           /\ EntryKey(Entries(sc)[j]) \notin {0, 1}
           /\ EntryDraw(Entries(sc)[j]) # 32

\* Instance i has decoded a Hot / Cold or Hits list whose last item has no
\* 0x00 after its hits byte: another byte follows, or the buffer ends.
OpenItemDecoded(i) ==
    /\ input[i].kind \in {"hotcold", "hits"}
    /\ pc[i] # "call"
    /\ LastPart(input[i]) \in HotColdOpen \cup HitsOpen
    /\ Rest(input[i]) = <<>> \/ Rest(input[i])[1] # 0
    /\ PlainEntries(input[i])

\* The open item is the last item returned and the cursor is just after its
\* hits byte.
OpenItemEmitted(i) ==
    \E es \in {Entries(input[i])}, l \in {LastPart(input[i])} :
        /\ pc[i] = "returned"
        /\ Len(ret[i][2]) = Len(es) + 1
        /\ Last(ret[i][2]).hits = DecodeSingleByteValue(Last(l))
        /\ Pos(i) = TotalLen(es) + Len(l)

\* C16: in the Hot/Cold and Hits list decoders of Deserializer, when the byte
\* after an item's hits value is not 0x00, or the buffer ends there, the item
\* is still emitted, the list ends without error, and the cursor is left
\* exactly just after the hits value.  (Violated: when the buffer ends after
\* the hits byte the cursor is moved back onto the hits byte.)
C16_OpenItemCursor ==
    \A i \in DOMAIN pc : OpenItemDecoded(i) => OpenItemEmitted(i)

\* The list a list decoder of the given kind returns for buf.
ListOf(kind, buf) ==
    CASE kind = "hotcold" -> ParseHotColdList(buf, 0).val
      [] kind = "hits" -> ParseHitsObject(buf, 0).val
      [] kind = "lastgames" -> ParseLastGamesList(buf, 0).val

\* Instance i has decoded a list whose whole entries are followed by an item
\* that misses an expected byte (Hot / Cold: the 0x09 or the hits marker;
\* Hits: the 0x10; LastGames compact entry: the 0x08 or the 0x09).
MalformedItemDecoded(i) ==
    /\ input[i].kind \in {"hotcold", "hits", "lastgames"}
    /\ pc[i] # "call"
    /\ LastPart(input[i]) \in HotColdBad \cup HitsBad \cup GamesBad
    /\ input[i].kind = "hotcold" => PlainEntries(input[i])

\* The items of the entries before the malformed item are returned, and the
\* cursor is on the first byte of the malformed item.
MalformedItemRewound(i) ==
    \E es \in {Entries(input[i])} :
        /\ pc[i] = "returned"
        /\ Len(ret[i][2]) = Len(es)
        /\ ret[i] = PyList(ListOf(input[i].kind, Concat(es)))
        /\ Pos(i) = TotalLen(es)

\* C17: when an expected byte is missing inside a list item (Hot/Cold: no
\* 0x09 after the key, or a hits marker other than 0x02/0x10; Hits: a marker
\* other than 0x10; LastGames compact entry: no 0x08 or no 0x09), the list
\* decoder returns exactly the items decoded before that item, leaves the
\* cursor at the first byte of the malformed item, and raises nothing.
\* (Violated: the number of a compact LastGames entry is read by
\* _parse_value before the 0x09 is looked for, and it raises ValueError for
\* 0x81 / 0x82 followed by bytes that are not a decimal literal.)
C17_MalformedItemRewinds ==
    \A i \in DOMAIN pc : MalformedItemDecoded(i) => MalformedItemRewound(i)

\* The sub-list of an info scenario that holds the malformed item (0: none).
MalformedAt(sc) ==
    IF \E k \in 1..4 : sc.parts[2 * k + 1] # <<>>
    THEN CHOOSE k \in 1..4 : sc.parts[2 * k + 1] # <<>>
    ELSE 0

\* The k-th of the four lists of an Info record.
InfoListAt(o, k) ==
    CASE k = 1 -> o.last_games [] k = 2 -> o.hot [] k = 3 -> o.cold
      [] k = 4 -> o.hits

\* The Info record is returned and its k-th list is what the k-th sub-list
\* decodes to on its own.
InfoListDecoded(i, k) ==
    /\ pc[i] = "returned"
    /\ Len(objects[i]) = 1
    /\ objects[i][1].cls = "Info"
    /\ InfoListAt(objects[i][1], k) = ListOf(InfoListKind[k], InfoListBytes[k])

\* C18: a malformed item inside one Info sub-list (LastGames, Hot, Cold or
\* Hits) terminates only that sub-list: the sub-lists that follow it in the
\* same info frame are still dispatched and decoded as they would be without
\* the malformed item, and the Info record is returned.  (Violated: the loop
\* of _parse_info_object stops at the first byte that is neither 0x00 nor
\* 0x01, which is where the sub-list left the cursor.)
C18_LaterListsDecoded ==
    \A i \in DOMAIN pc :
        input[i].kind = "info" /\ pc[i] # "call" /\ MalformedAt(input[i]) # 0
        => /\ pc[i] = "returned" /\ Len(objects[i]) = 1
           /\ \A k \in 1..4 :
                 k > MalformedAt(input[i]) => InfoListDecoded(i, k)

\* The frames that follow the first part of a scenario.
Following(sc) == Concat(Tail(sc.parts))

\* C19: a frame whose top-level object name is neither 'event' nor 'info'
\* produces no record and no error, and every well-formed event or info
\* frame that follows it in the buffer is still decoded.  (Violated: the
\* body of such a frame is searched for 0x22 like junk between frames, and a
\* 0x22 inside it is taken for the start of a frame.)
C19_UnknownFrameSkipped ==
    \A i \in DOMAIN pc :
        input[i].kind = "unknown" /\ pc[i] # "call"
        => /\ pc[i] = "returned"
           /\ objects[i] = Deserialize(Following(input[i])).objects

\* The last n elements of a sequence.
LastN(s, n) == SubSeq(s, Len(s) - n + 1, Len(s))

\* C20: a length-prefixed name containing bytes that are not valid UTF-8
\* never aborts decoding, whether it is the top-level frame name, an object
\* name or a field name: the name is decoded best-effort and decoding
\* continues with the following bytes and frames.  (Violated: the top-level
\* name is decoded strictly and the UnicodeDecodeError leaves deserialize.)
C20_BadNameTolerated ==
    \A i \in DOMAIN pc :
        input[i].kind = "badname" /\ pc[i] # "call"
        => \E after \in {Deserialize(Following(input[i])).objects} :
              /\ pc[i] = "returned"
              /\ Len(objects[i]) >= Len(after)
              /\ LastN(objects[i], Len(after)) = after

\* The tokens of a "markets" scenario, and what each one is.
Tokens(sc) == Tail(sc.parts)
TokenName(t) == SubSeq(t, 3, 2 + t[2])
\* The nesting depth before token j, 0 being the Market object itself.
DepthBefore(ts, j) ==
    Cardinality({m \in 1..(j - 1) : ts[m][1] = 1})
    - Cardinality({m \in 1..(j - 1) : ts[m][1] = 0})
\* The tokens directly inside the object opened by token c (c = 0: the
\* Market object): they come after c, one level deeper, before its close.
Inside(ts, c) ==
    {j \in (c + 1)..Len(ts) :
        /\ ts[j][1] # 0
        /\ DepthBefore(ts, j) = DepthBefore(ts, c + 1)
        /\ \A m \in (c + 1)..j : DepthBefore(ts, m) >= DepthBefore(ts, c + 1)}
\* The name token j assigns in its object: its own name, or for a 0x0C the
\* name of the nearest field before it (<<-1>>: there is none).
Assigned(ts, j) ==
    IF ts[j][1] # 12 THEN TokenName(ts[j])
    ELSE IF \E m \in 1..(j - 1) : ts[m][1] = 2
    THEN TokenName(ts[Greatest({m \in 1..(j - 1) : ts[m][1] = 2})])
    ELSE <<-1>>
\* The names assigned in the object opened by c, each once, in the order of
\* their first occurrence in the stream.
FirstOccurrences(ts, c) ==
    {j \in Inside(ts, c) :
        /\ Assigned(ts, j) # <<-1>>
        /\ \A m \in Inside(ts, c) : m < j => Assigned(ts, m) # Assigned(ts, j)}
NamesInOrder(ts, c) ==
    [k \in 1..Cardinality(FirstOccurrences(ts, c)) |->
        Assigned(ts, Ascending(FirstOccurrences(ts, c))[k])]
\* The keys of a dict, in its order.
Keys(d) == [k \in 1..Len(d) |-> d[k][1]]
\* The token that gave the Market child called name its final value.
LastAssigning(ts, name) ==
    Greatest({j \in Inside(ts, 0) : Assigned(ts, j) = name})

\* C21: in every decoded object map the keys appear in the order in which
\* their names first occur in the byte stream of that container, and
\* Event.markets lists the children of 'Market' in that same stream order.
C21_KeysInStreamOrder ==
    \A i \in DOMAIN pc :
        input[i].kind = "markets" /\ pc[i] # "call"
        => \E ts \in {Tokens(input[i])} :
              /\ pc[i] = "returned"
              /\ Len(objects[i]) = 1
              /\ [k \in 1..Len(objects[i][1].markets) |->
                     objects[i][1].markets[k].name] = NamesInOrder(ts, 0)
              /\ \A k \in 1..Len(objects[i][1].markets) :
                    \E m \in {objects[i][1].markets[k]} :
                       ts[LastAssigning(ts, m.name)][1] = 1
                       => /\ m.data[1] = "dict"
                          /\ Keys(m.data[2]) =
                                NamesInOrder(ts, LastAssigning(ts, m.name))

\* Market { A=1 B=2 A { B=2 A=1 } }: A is assigned twice and keeps its place
\* before B; inside the object A the order is B, A.
C21_Witness ==
    \E i \in DOMAIN pc :
        /\ input[i].kind = "markets"
        /\ Tokens(input[i]) = <<<<2, 1, 65, 32, 1>>, <<2, 1, 66, 32, 2>>,
                                <<1, 1, 65>>, <<2, 1, 66, 32, 2>>>>
        /\ pc[i] = "returned"
        /\ objects[i][1].markets =
              <<Market(<<65>>, PyDict(<<<<<<66>>, PyInt(2)>>>>)),
                Market(<<66>>, PyInt(2))>>

----------------------------------------------------------------------------
(* C22: deserialize() terminates on every finite buffer.  Every iteration  *)
(* of every loop (the frame scan, the object parser, the Info loop and the *)
(* LastGames, Hot/Cold and Hits decoders) after which the loop goes on has *)
(* moved the cursor forward, also when a list decoder called in it went    *)
(* back to the start of a malformed item; and every call ends.             *)
InLoop(i) == pc[i] \in {"loop", "iter"}
Ended(i) == pc[i] \in {"done", "returned", "raised"}
CursorAdvances(i) == stream'[self'[i].stream].pos > Pos(i)
LoopRepeats(i) == InLoop(i) /\ pc'[i] = pc[i]

C22_Terminates ==
    /\ [][\A i \in DOMAIN pc : LoopRepeats(i) => CursorAdvances(i)]_vars
    /\ <>(\A i \in DOMAIN pc : Ended(i))

\* The Hits list of an info body holds one entry and then an entry named
\* 'Hits' without the 0x10 marker: the Hits decoder went back to its 0x01,
\* the Info loop dispatched 'Hits' again, and the call ended at the end of
\* the buffer.
C22_Witness ==
    \E i \in DOMAIN pc :
        /\ pc[i] = "returned"
        /\ input[i] = Whole("infoloop", <<Named(1, N_Hits) \o HitsPositional(11, 57),
                                          Named(1, N_Hits), <<0, 0, 65>>>>)
        /\ ParseHitsObject(Buf(i), Len(Named(1, N_Hits))).pos
              = Len(Named(1, N_Hits) \o HitsPositional(11, 57))
        /\ ret[i].val.hits = <<>>
        /\ Pos(i) = Len(Buf(i)) - 1

----------------------------------------------------------------------------
(* C23: when the byte after the 3-byte id of a candidate frame start is    *)
(* not 0x01, the scan resumes at the byte right after the candidate's      *)
(* 0x22, so that a frame that starts within the four bytes after it is     *)
(* found and decoded.  Stated for a candidate whose id and the byte after  *)
(* it are all in the buffer.                                               *)
C23_ResumesAfterQuote ==
    [][\A i \in DOMAIN pc :
          Resync(i) /\ Len(Buf(i)) >= Pos(i) + 5
              => stream'[self[i].stream].pos = Pos(i) + 1]_vars

----------------------------------------------------------------------------
(* C24: for a marker byte b that is none of 0x22, 0x8A, 0x85, 0x81, 0x82,  *)
(* 0x20 and 0x07, _parse_value consumes that one byte and returns b - 0x30 *)
(* when b is an ASCII digit, 10 when b is 0x3A, and b otherwise.           *)
TypedMarkers == {34, 138, 133, 129, 130, 32, 7}

\* The single-byte rule as stated: a digit gives its numeric value, ':'
\* gives 10, any other byte gives itself.
SingleByteRule(b) ==
    IF b \in 48..57 THEN b - 48 ELSE IF b = 58 THEN 10 ELSE b

C24_FallbackValue ==
    \A i \in DOMAIN pc :
        /\ input[i].kind = "value"
        /\ pc[i] # "call"
        /\ Buf(i)[1] \notin TypedMarkers
        => /\ pc[i] = "returned"
           /\ ret[i] = PyInt(SingleByteRule(Buf(i)[1]))
           /\ Pos(i) = 1

----------------------------------------------------------------------------
(* C25: in the Hot/Cold and Hits decoders every draw byte and every hits   *)
(* byte b is decoded by the single-byte rule: a digit gives its numeric    *)
(* value, 0x3A gives 10, any other byte gives b.                           *)

\* A Hits list of whole entries has been decoded by instance i.
HitsClosed(i) ==
    /\ input[i].kind = "hits"
    /\ pc[i] # "call"
    /\ LastPart(input[i]) = <<>>

\* The draw and hits of the items of instance i are those the rule `rule`
\* makes of the draw and hits bytes of the entries.
DrawAndHitsBy(i, rule(_)) ==
    \E es \in {Entries(input[i])} :
        /\ pc[i] = "returned"
        /\ ret[i][1] = "list"
        /\ Len(ret[i][2]) = Len(es)
        /\ \A j \in 1..Len(es) :
              /\ ret[i][2][j].hits = rule(EntryHits(es[j]))
              /\ input[i].kind = "hotcold"
                    => ret[i][2][j].draw = rule(EntryDraw(es[j]))

C25_DigitsDecoded ==
    \A i \in DOMAIN pc :
        (HotColdClosed(i) /\ PlainEntries(input[i])) \/ HitsClosed(i)
        => DrawAndHitsBy(i, SingleByteRule)

----------------------------------------------------------------------------
(* C26: for marker 0x81 or 0x82 the value decoder takes the bytes up to,   *)
(* but not including, the next 0x00 (or the end of the buffer), returns    *)
(* their decimal integer value, 0 when the run is empty, and leaves the    *)
(* cursor on that 0x00, so that the same byte closes the enclosing         *)
(* container.  Stated for runs of ASCII digits.                            *)

\* The number a run of ASCII digits denotes; 0 for the empty run.
RECURSIVE DecimalOf(_)
DecimalOf(run) ==
    IF run = <<>> THEN 0
    ELSE 10 * DecimalOf(SubSeq(run, 1, Len(run) - 1)) + (run[Len(run)] - 48)

\* The run of a scenario of IntRunInputs or NumberFrameInputs.
RunOf(sc) == sc.parts[IF sc.kind = "value" THEN 2 ELSE 3]
IsIntRun(sc) ==
    \/ sc.kind = "value" /\ Len(sc.parts) = 3
    \/ sc.kind = "number"

----------------------------------------------------------------------------
(* C27: in the first, verbose LastGames entry Draw is the run of bytes     *)
(* between the Draw field name and the next 0x00.  It decodes to 0 when    *)
(* the run is empty, to the integer when the run is a decimal integer, and *)
(* otherwise to the run kept as a string; the two field names read there   *)
(* are the schema of the rest of the list: the compact entry that follows  *)
(* gives its Number and its Draw.                                          *)
AllDigits(run) == run # <<>> /\ \A k \in 1..Len(run) : run[k] \in 48..57

\* A run that is no decimal integer, with or without blanks around it.
NotDecimal(run) ==
    run # <<>> /\ ~AllDigits(SelectSeq(run, LAMBDA b : b # 32))

\* The Draw run of a scenario of VerboseInputs: what lies between the
\* second field name and the 0x00 that ends the entry.
DrawRunOf(sc) ==
    CHOOSE run \in DrawRuns :
        \E ns \in {<<N_Number, N_Draw>>, <<N_Draw, N_Type>>} :
            sc.parts[1] = VerboseEntry(ns[1], ns[2], run)

VerboseDecoded(i) == input[i].kind = "verbose" /\ pc[i] # "call"

\* C27 as stated.  (Violated: the run is stripped of the blanks around it
\* before it is looked at, so that a run of blanks gives 0 and 'A ' gives
\* 'A'.)
C27_VerboseDraw ==
    \A i \in DOMAIN pc : \E sc \in {input[i]} :
        VerboseDecoded(i)
        => \E run \in {DrawRunOf(sc)} :
              /\ pc[i] = "returned"
              /\ ret[i][1] = "list"
              /\ Len(ret[i][2]) = IF sc.parts[2] = <<>> THEN 1 ELSE 2
              /\ ret[i][2][1].name = <<48>>
              /\ run = <<>> => ret[i][2][1].draw = PyInt(0)
              /\ AllDigits(run) => ret[i][2][1].draw = PyInt(DecimalOf(run))
              /\ NotDecimal(run) => ret[i][2][1].draw = PyStr(run)
              /\ sc.parts[2] # <<>>
                    => ret[i][2][2] = Game(<<49>>, PyStr(<<56, 56>>), PyInt(10))

\* A run without the blanks before its first and after its last other byte.
TrimBlanks(run) ==
    One({ IF nb = {} THEN <<>>
          ELSE SubSeq(run, CHOOSE k \in nb : \A m \in nb : k <= m,
                      CHOOSE k \in nb : \A m \in nb : k >= m) :
          nb \in {{k \in 1..Len(run) : run[k] # 32}} })

\* C27 amended: the same with the run taken without the blanks around it.
C27_VerboseDrawTrimmed ==
    \A i \in DOMAIN pc : \E sc \in {input[i]} :
        VerboseDecoded(i)
        => \E run \in {TrimBlanks(DrawRunOf(sc))} :
              /\ pc[i] = "returned"
              /\ ret[i][1] = "list"
              /\ Len(ret[i][2]) = IF sc.parts[2] = <<>> THEN 1 ELSE 2
              /\ ret[i][2][1].name = <<48>>
              /\ run = <<>> => ret[i][2][1].draw = PyInt(0)
              /\ AllDigits(run) => ret[i][2][1].draw = PyInt(DecimalOf(run))
              /\ run # <<>> /\ ~AllDigits(run) => ret[i][2][1].draw = PyStr(run)
              /\ sc.parts[2] # <<>>
                    => ret[i][2][2] = Game(<<49>>, PyStr(<<56, 56>>), PyInt(10))

\* The first entry declares Draw and Type and its run is 'A ': Draw is 'A',
\* and the compact entry after it gives Number '88' and Draw 10.
C27_Witness ==
    \E i \in DOMAIN pc :
        /\ pc[i] = "returned"
        /\ input[i] = Whole("verbose",
                            <<VerboseEntry(N_Draw, N_Type, <<65, 32>>),
                              GameCompact(<<49>>, <<133, 56, 56>>, <<58>>), <<0>>>>)
        /\ ret[i] = PyList(<<Game(<<48>>, PyStr(<<56, 57>>), PyStr(<<65>>)),
                             Game(<<49>>, PyStr(<<56, 56>>), PyInt(10))>>)

----------------------------------------------------------------------------
(* C28: for a compact LastGames entry 0x08, Number value, 0x09, b, 0x00    *)
(* with a single Draw byte b other than 0x00, Draw is the digit value when *)
(* b is an ASCII digit, 10 when b is 0x3A, and b for every other byte.     *)

\* The Draw byte of a scenario of CompactInputs: the byte before the 0x00
\* that ends the compact entry.
CompactByteOf(sc) == sc.parts[2][Len(sc.parts[2]) - 1]

C28_CompactDraw ==
    \A i \in DOMAIN pc : \E sc \in {input[i]} :
        sc.kind = "compact" /\ pc[i] # "call"
        => /\ pc[i] = "returned"
           /\ ret[i][1] = "list"
           /\ Len(ret[i][2]) = 2
           /\ ret[i][2][2].name = <<49>>
           /\ ret[i][2][2].number = PyStr(<<56, 56>>)
           /\ ret[i][2][2].draw = PyInt(SingleByteRule(CompactByteOf(sc)))

(* C29: within one LastGames list exactly the first entry is parsed with   *)
(* the verbose encoding and every later entry must use the compact         *)
(* encoding 0x08 ... 0x09 ...; each new LastGames list starts again with a *)
(* verbose first entry, the field names of an earlier list being           *)
(* discarded.                                                              *)
\* the buffer holds the bytes e from offset p on
StartsWith(buf, p, e) ==
    /\ Len(buf) >= p + Len(e)
    /\ SubSeq(buf, p + 1, p + Len(e)) = e

\* the offset after the 0x01 and the length-prefixed name of the entry at p
AfterEntryName(buf, p) == p + 2 + buf[p + 2]

\* the entry at p has the 0x08 of a compact entry after its name
CompactMarked(buf, p) ==
    /\ Len(buf) >= p + 2
    /\ buf[p + 1] = 1
    /\ Len(buf) >= AfterEntryName(buf, p) + 1
    /\ buf[AfterEntryName(buf, p) + 1] = 8

\* An iteration of the LastGames loop has added a game to the list.
GameAdded(i) == Len(ret'[i].val) = Len(ret[i].val) + 1

\* An iteration on the first entry: the field names are learned from it.
FirstEntryVerbose(i) ==
    /\ ret[i].fields = <<>>
    /\ GameAdded(i) =>
          /\ StartsWith(Buf(i), Pos(i), GameVerbose)
          /\ ret'[i].fields = <<N_Number, N_Draw>>
          /\ ret'[i].val = <<Game(<<48>>, PyStr(<<56, 57>>), PyInt(0))>>

\* An iteration on a later entry: a compact entry is added, and an entry
\* that lacks the 0x08 after its name ends the list with nothing consumed.
LaterEntryCompact(i) ==
    /\ ret[i].fields = <<N_Number, N_Draw>>
    /\ ret'[i].fields = ret[i].fields
    /\ GameAdded(i) =>
          /\ CompactMarked(Buf(i), Pos(i))
          /\ \E k \in AfterEntryName(Buf(i), Pos(i)) + 2
                      .. stream'[self[i].stream].pos : Buf(i)[k] = 9
    /\ \A e \in GameEntries : StartsWith(Buf(i), Pos(i), e) => GameAdded(i)
    /\ ~CompactMarked(Buf(i), Pos(i)) =>
          /\ ret'[i].val = ret[i].val
          /\ ~ret'[i].more
          /\ stream'[self[i].stream].pos = Pos(i)

\* What the second LastGames list of an info body gives.
SecondListGames(t) ==
    CASE t = VerboseEntry(N_Draw, N_Type, <<53>>) ->
           <<Game(<<48>>, PyStr(<<56, 57>>), PyInt(5))>>
      [] t = GameVerbose \o GameCompact(<<49>>, <<133, 56, 56>>, <<58>>) ->
           <<Game(<<48>>, PyStr(<<56, 57>>), PyInt(0)),
             Game(<<49>>, PyStr(<<56, 56>>), PyInt(10))>>

\* The second list starts with a verbose entry again: a compact entry in
\* its first place is not read as one.
SecondListVerbose(i) ==
    input[i] \in TwoListInputs /\ pc[i] \in {"returned", "raised"} =>
        IF input[i].parts[4] = GameCompact(<<49>>, <<133, 56, 56>>, <<58>>)
        THEN pc[i] = "raised" /\ exc[i] = "IndexError"
        ELSE /\ pc[i] = "returned"
             /\ ret[i].val.last_games = SecondListGames(input[i].parts[4])
             /\ Pos(i) = Len(Buf(i))

C29_VerboseThenCompact ==
    /\ [][\A i \in DOMAIN pc :
             Iterating(i, "lastgames") =>
                 IF ret[i].val = <<>> THEN FirstEntryVerbose(i)
                 ELSE LaterEntryCompact(i)]_vars
    /\ [](\A i \in DOMAIN pc : SecondListVerbose(i))

\* the second list of an info body, after a first list of two games,
\* declared the field names Draw and Type and gave its one game
C29_Witness ==
    \E i \in DOMAIN pc :
        /\ input[i] \in TwoListInputs
        /\ input[i].parts[1] = Named(1, N_LastGames) \o GameVerbose
                               \o GameCompact(<<49>>, <<133, 56, 56>>, <<58>>)
        /\ input[i].parts[4] = VerboseEntry(N_Draw, N_Type, <<53>>)
        /\ pc[i] = "returned"
        /\ ret[i].val.last_games = <<Game(<<48>>, PyStr(<<56, 57>>), PyInt(5))>>

(* C30: when the next candidate LastGames item is 0x01 and the             *)
(* length-prefixed name Hot, Cold, Hits or PreviousResults, the LastGames  *)
(* decoder ends the list with the cursor left on that 0x01, so that the    *)
(* Info loop dispatches that sub-list next; the Hits decoder likewise      *)
(* stops, consuming nothing, on 0x01 and the name PreviousResults.         *)
\* 0x01 and one of the names are the bytes at offset p
NameAhead(buf, p, names) == \E n \in names : StartsWith(buf, p, Named(1, n))

\* The iteration ends the loop where it started, the list as it was.
StopsUnconsumed(i) ==
    /\ ret'[i].val = ret[i].val
    /\ ~ret'[i].more
    /\ stream'[self[i].stream].pos = Pos(i)
    /\ pc'[i] = "returned"

\* The games of the list the scenario starts with.
GamesOf(g) ==
    CASE g = <<>> -> <<>>
      [] g = GameVerbose -> <<Game(<<48>>, PyStr(<<56, 57>>), PyInt(0))>>
      [] OTHER -> <<Game(<<48>>, PyStr(<<56, 57>>), PyInt(0)),
                    Game(<<49>>, PyStr(<<56, 56>>), PyInt(10))>>
HitsOf(h) ==
    CASE h = <<>> -> <<>>
      [] h = HitsPositional(7, 58) -> <<HitsItem(PyInt(7), 10)>>
      [] OTHER -> <<HitsItem(PyInt(11), 57)>>

\* the first list of the info body, decoded without its name
FirstListOf(sc) ==
    IF StartsWith(sc.parts[1], 0, Named(1, N_LastGames))
    THEN [NoLists EXCEPT
            !.last_games = GamesOf(SubSeq(sc.parts[1], 12, Len(sc.parts[1])))]
    ELSE [NoLists EXCEPT
            !.hits = HitsOf(SubSeq(sc.parts[1], 7, Len(sc.parts[1])))]

\* the lists once the sub-list after the first is decoded too
BothListsOf(sc) ==
    CASE sc.parts[2] = Named(1, N_Hot) ->
           [FirstListOf(sc) EXCEPT !.hot = <<HotColdItem(7, 26, 5)>>]
      [] sc.parts[2] = Named(1, N_Cold) ->
           [FirstListOf(sc) EXCEPT !.cold = <<HotColdItem(7, 26, 5)>>]
      [] sc.parts[2] = Named(1, N_Hits) ->
           [FirstListOf(sc) EXCEPT !.hits = <<HitsItem(PyInt(7), 10)>>]
      [] OTHER -> FirstListOf(sc)

\* The Info loop on the first list, then on what follows it.
InfoDispatchesNext(i) ==
    /\ Pos(i) = 0 =>
          /\ ret'[i].val = FirstListOf(input[i])
          /\ ret'[i].more
          /\ stream'[self[i].stream].pos = Len(input[i].parts[1])
    /\ Pos(i) = Len(input[i].parts[1]) =>
          /\ ret'[i].val = BothListsOf(input[i])
          /\ stream'[self[i].stream].pos >=
                Min(Len(Buf(i)), Pos(i) + Len(input[i].parts[2]) + 1)

C30_StopsOnNextList ==
    [][\A i \in DOMAIN pc :
          /\ Iterating(i, "lastgames") /\ NameAhead(Buf(i), Pos(i), SubListNames)
                => StopsUnconsumed(i)
          /\ Iterating(i, "hits")
             /\ NameAhead(Buf(i), Pos(i), {N_PreviousResults})
                => StopsUnconsumed(i)
          /\ Iterating(i, "infoloop") /\ input[i] \in InfoEnderInputs
                => InfoDispatchesNext(i)]_vars

\* after a LastGames list of two games the Info loop has decoded the Hot
\* list that followed it
C30_Witness ==
    \E i \in DOMAIN pc :
        /\ input[i] \in InfoEnderInputs
        /\ input[i].parts[2] = Named(1, N_Hot)
        /\ pc[i] = "returned"
        /\ Len(ret[i].val.last_games) = 2
        /\ ret[i].val.hot = <<HotColdItem(7, 26, 5)>>
        /\ Pos(i) = Len(Buf(i))

----------------------------------------------------------------------------
(* C31: in a Hits entry, after the 0x10 marker, a hits value of one byte   *)
(* before 0x00 is decoded by the single-byte rule and a hits value that is *)
(* a run of several bytes before 0x00 is decoded as the decimal integer    *)
(* the run spells; the run and its 0x00 are consumed, so that the next     *)
(* entry is decoded.                                                       *)
\* The hits a run of bytes stands for.
HitsOfRun(run) ==
    IF Len(run) = 1 THEN SingleByteRule(run[1]) ELSE DecimalOf(run)

C31_HitsRun ==
    \A i \in DOMAIN pc :
        input[i].kind = "hitsrun" /\ pc[i] # "call"
        => /\ pc[i] = "returned"
           /\ ret[i] = PyList(<<HitsItem(PyInt(7), HitsOfRun(input[i].parts[2])),
                                HitsItem(PyInt(10), 10)>>)
           /\ Pos(i) = Len(Buf(i))

----------------------------------------------------------------------------
(* C32: for an event whose body has a 'Market' child object, Event.markets *)
(* holds one Market per child of that object, its name the child's name    *)
(* and its data the child's own field map; when the body has no 'Market'   *)
(* child, markets is empty and no error is raised.                         *)
\* The names of the child objects opened directly in the Market object by
\* the tokens ts.
ChildNames(ts) == {TokenName(ts[j]) : j \in {m \in Inside(ts, 0) : ts[m][1] = 1}}

\* The markets are the child objects of Market, each with a field map.
MarketPerChild(markets, ts) ==
    /\ Len(markets) = Cardinality(ChildNames(ts))
    /\ \A j \in 1..Len(markets) :
          /\ markets[j].name \in ChildNames(ts)
          /\ markets[j].data[1] = "dict"

C32_Markets ==
    \A i \in DOMAIN pc :
        input[i].kind \in {"markets", "number"} /\ pc[i] # "call"
        => /\ pc[i] = "returned"
           /\ objects[i] # <<>>
           /\ objects[i][1].cls = "Event"
           /\ IF input[i].kind = "markets"
              THEN MarketPerChild(objects[i][1].markets, Tokens(input[i]))
              ELSE objects[i][1].markets = <<>>

----------------------------------------------------------------------------
(* C33: in the Info loop, after the sub-list name PreviousResults exactly  *)
(* one byte is consumed and it is a 0x00 terminator; no list items are     *)
(* produced for it, the lists already decoded for that Info are unchanged, *)
(* and the first byte of a frame that follows is never consumed by this    *)
(* step.                                                                   *)
\* the offset after 0x01 and the length-prefixed name PreviousResults at p
AfterPreviousResults(p) == p + 2 + Len(N_PreviousResults)

C33_OneTerminator ==
    [][\A i \in DOMAIN pc :
          /\ Iterating(i, "infoloop")
          /\ StartsWith(Buf(i), Pos(i), Named(1, N_PreviousResults))
          => /\ stream'[self[i].stream].pos = AfterPreviousResults(Pos(i)) + 1
             /\ Buf(i)[AfterPreviousResults(Pos(i)) + 1] = 0
             /\ ret'[i].val = ret[i].val
             /\ ret'[i].more]_vars

----------------------------------------------------------------------------
(* C34: Event.id is always the 24-bit id of the frame header and is        *)
(* unaffected by the value of the 'ID' field in the event body, whereas    *)
(* Info.id is always the value of the first field of the info body and is  *)
(* unaffected by the frame header id.                                      *)
\* the number three id bytes stand for
IdNumber(id) == id[1] + 256 * id[2] + 65536 * id[3]

C34_IdSource ==
    \A i \in DOMAIN pc :
        input[i].kind = "ids" /\ pc[i] # "call"
        => /\ pc[i] = "returned"
           /\ Len(objects[i]) = 1
           /\ IF input[i].parts[3] = Named(1, N_event)
              THEN /\ objects[i][1].cls = "Event"
                   /\ objects[i][1].id = PyInt(IdNumber(input[i].parts[2]))
              ELSE /\ objects[i][1].cls = "Info"
                   /\ objects[i][1].id = PyInt(IdNumber(input[i].parts[6]))

\* an event with the header id 01 02 03 and the ID field FF FF FF, decoded
\* with the id 197121
C34_Witness ==
    \E i \in DOMAIN pc :
        /\ input[i].kind = "ids"
        /\ input[i].parts[2] = <<1, 2, 3>>
        /\ input[i].parts[3] = Named(1, N_event)
        /\ input[i].parts[4] = Named(2, N_ID)
        /\ input[i].parts[6] = <<255, 255, 255>>
        /\ pc[i] = "returned"
        /\ objects[i][1].id = PyInt(197121)

----------------------------------------------------------------------------
(* C35: when a 0x0C occurs in the generic object parser with no field name *)
(* in scope, only the 0x0C byte itself is consumed: the bytes that follow  *)
(* are not decoded as a value but are interpreted as the next markers of   *)
(* the same container.                                                     *)
\* The iteration of instance i starts on the byte b with no name in scope.
UnnamedAt(i, b) ==
    /\ Iterating(i, "objloop")
    /\ ~AtEnd(Buf(i), Pos(i))
    /\ Buf(i)[Pos(i) + 1] = b
    /\ ~Truthy(ret[i].last)

\* The iteration has consumed one byte and left the locals as they were.
OneByteOnly(i) ==
    /\ stream'[self[i].stream].pos = Pos(i) + 1
    /\ ret'[i].obj = ret[i].obj
    /\ ret'[i].last = ret[i].last
    /\ ret'[i].more

\* The byte after a skipped 0x0C is taken for a marker: 0x00 closes the
\* object, 0x02 declares a field, 0x20, 0x85 and 0x22 are passed over alone.
MarkerAfterSkip(i) ==
    /\ UnnamedAt(i, 0) => ~ret'[i].more /\ pc'[i] = "returned"
    /\ UnnamedAt(i, 2) =>
          /\ ret'[i].obj = <<<<<<65>>, PyInt(1)>>>>
          /\ ret'[i].last = PyStr(<<65>>)
    /\ (\E b \in {32, 133, 34} : UnnamedAt(i, b)) => OneByteOnly(i)

C35_RepeatWithoutName ==
    [][\A i \in DOMAIN pc :
          /\ UnnamedAt(i, 12) => OneByteOnly(i)
          /\ input[i] \in RepeatFirstInputs /\ Pos(i) = 1
                => MarkerAfterSkip(i)]_vars

\* after 0C 22 01 02 03 00 the object is closed: the 0x0C and the 0x22 were
\* passed over and 01 02 03 00 was a child object named by 03 00
C35_Witness ==
    \E i \in DOMAIN pc :
        /\ input[i] \in RepeatFirstInputs
        /\ input[i].parts[2] = <<34, 1, 2, 3>>
        /\ pc[i] = "returned"
        /\ Len(ret[i].obj) = 1
        /\ ret[i].obj[1][2] = PyDict(<<>>)

----------------------------------------------------------------------------
(* C36: in the generic object parser a byte at marker position that is     *)
(* none of 0x00, 0x01, 0x02, 0x0C is consumed as a single byte and changes *)
(* neither the object map nor the field name in scope; parsing of the      *)
(* container continues with the next byte.                                 *)
\* The iteration of instance i starts on a byte that is no marker.
OtherMarkerAt(i) ==
    /\ Iterating(i, "objloop")
    /\ ~AtEnd(Buf(i), Pos(i))
    /\ Buf(i)[Pos(i) + 1] \notin {0, 1, 2, 12}

\* The iteration after the byte decodes what follows it in the scenario:
\* the field B, or the repeat, which stores 9 under A when A is in scope.
ContinuesAfterOther(i) ==
    /\ input[i].parts[3] = <<2, 1, 66, 32, 2>> =>
          /\ DictHas(ret'[i].obj, <<66>>)
          /\ DictGet(ret'[i].obj, <<66>>) = PyInt(2)
          /\ ret'[i].last = PyStr(<<66>>)
    /\ input[i].parts[3] = <<12, 32, 9>> /\ input[i].parts[1] # <<>> =>
          /\ ret'[i].obj = <<<<<<65>>, PyInt(9)>>>>
          /\ ret'[i].last = PyStr(<<65>>)
          /\ stream'[self[i].stream].pos = Len(Buf(i))
    /\ input[i].parts[3] = <<0>> =>
          /\ pc'[i] = "returned"
          /\ ret'[i].obj = ret[i].obj

C36_OtherMarker ==
    [][\A i \in DOMAIN pc :
          /\ OtherMarkerAt(i) => OneByteOnly(i)
          /\ /\ input[i] \in OtherMarkerInputs
             /\ Iterating(i, "objloop")
             /\ Pos(i) = Len(input[i].parts[1]) + 1
             => ContinuesAfterOther(i)]_vars

\* Market body 'A = 1, 0x07, 0C 20 09': A is in scope across the 0x07 and
\* the repeat stored 9 under it
C36_Witness ==
    \E i \in DOMAIN pc :
        /\ input[i] \in OtherMarkerInputs
        /\ input[i].parts = <<<<2, 1, 65, 32, 1>>, <<7>>, <<12, 32, 9>>>>
        /\ pc[i] = "returned"
        /\ ret[i].obj = <<<<<<65>>, PyInt(9)>>>>
        /\ ret[i].last = PyStr(<<65>>)

----------------------------------------------------------------------------
(* C37: after a 0x02 field whose name has length 0 the value is stored     *)
(* under the empty name, but every following 0x0C in that container is     *)
(* skipped (stores nothing) until another non-empty field name is          *)
(* declared, even when a non-empty field name had been in scope before;    *)
(* when the container closes, the parent keeps the name it had in scope    *)
(* before the child.                                                       *)
\* The iteration on the field 02 00 20 05 stores 5 under the empty name,
\* which is then the name in scope.
EmptyNameStored(i) ==
    StartsWith(Buf(i), Pos(i), <<2, 0, 32, 5>>) =>
        /\ DictHas(ret'[i].obj, <<>>)
        /\ DictGet(ret'[i].obj, <<>>) = PyInt(5)
        /\ ret'[i].last = PyStr(<<>>)
        /\ stream'[self[i].stream].pos = Pos(i) + 4

\* With the empty name in scope a 0x0C stores nothing.
RepeatSkipped(i) ==
    ret[i].last = PyStr(<<>>) /\ StartsWith(Buf(i), Pos(i), <<12>>)
        => OneByteOnly(i)

\* A child whose only field has the empty name leaves the parent its name.
ParentKeepsName(i) ==
    \/ StartsWith(Buf(i), Pos(i), <<1, 1, 88, 2, 0, 32, 5, 0>>)
    \/ StartsWith(Buf(i), Pos(i), <<1, 1, 88, 2, 0, 32, 5, 12, 32, 9, 0>>)
    => /\ ret'[i].last = ret[i].last
       /\ DictGet(ret'[i].obj, <<88>>) = PyDict(<<<<<<>>, PyInt(5)>>>>)

C37_EmptyName ==
    /\ [][\A i \in DOMAIN pc :
             Iterating(i, "objloop") /\ input[i] \in EmptyNameInputs
             => /\ EmptyNameStored(i)
                /\ RepeatSkipped(i)
                /\ ParentKeepsName(i)]_vars
    /\ [](\A i \in DOMAIN pc : \A k \in DOMAIN EmptyNameCases :
             /\ input[i].kind = "objloop"
             /\ input[i].parts = EmptyNameCases[k].parts
             /\ pc[i] # "call" /\ ~InLoop(i)
             => /\ pc[i] = "returned"
                /\ ret[i].obj = EmptyNameCases[k].obj
                /\ ret[i].last = EmptyNameCases[k].last
                /\ Pos(i) = Len(Buf(i)))

\* 'A = 1, "" = 5, 0C 20 09' is decoded to {A: 1, "": 5}: the repeat stored
\* nothing, although A had been in scope
C37_Witness ==
    \E i \in DOMAIN pc :
        /\ input[i].kind = "objloop"
        /\ input[i].parts = EmptyNameCases[1].parts
        /\ pc[i] = "returned"
        /\ ret[i].obj = <<<<<<65>>, PyInt(1)>>, <<<<>>, PyInt(5)>>>>
        /\ ret[i].last = PyStr(<<>>)

----------------------------------------------------------------------------
(* C38: a name stored more than once in one container has a single entry   *)
(* in the container's map, at the position of its first occurrence and     *)
(* with the value stored last.                                             *)

\* The last token that assigns name in the object opened by c.
LastAssigningIn(ts, c, name) ==
    Greatest({j \in Inside(ts, c) : Assigned(ts, j) = name})
\* The map the stream describes for the object opened by c: one entry per
\* name, in the order of the first occurrences, each with the value of the
\* last token that assigns it (a field's or a repeat's value byte, or the
\* map of a child object).
RECURSIVE StreamMap(_, _)
StreamMap(ts, c) ==
    [k \in 1..Len(NamesInOrder(ts, c)) |->
        One({ << n, IF ts[j][1] = 1 THEN PyDict(StreamMap(ts, j))
                    ELSE PyInt(ts[j][Len(ts[j])]) >> :
              n \in {NamesInOrder(ts, c)[k]},
              j \in {LastAssigningIn(ts, c, NamesInOrder(ts, c)[k])} })]
\* A name is assigned by more than one token of the object opened by c.
StoredAgain(ts, c) ==
    \E j, m \in Inside(ts, c) :
        j < m /\ Assigned(ts, j) # <<-1>> /\ Assigned(ts, j) = Assigned(ts, m)
MarketsNamed(markets, n) == {k \in 1..Len(markets) : markets[k].name = n}

\* C38: when the same name is stored more than once in one container (a
\* repeated 0x02 field, a 0x0C repeat, or a repeated 0x01 child name), the
\* container's map holds a single entry for it, carrying the last value at
\* the position of the first occurrence; hence an Event has exactly one
\* Market per distinct child name of 'Market'.
C38_LastValueFirstPlace ==
    \A i \in DOMAIN pc :
        input[i].kind = "markets" /\ pc[i] # "call"
        => \E ts \in {Tokens(input[i])} :
              /\ pc[i] = "returned"
              /\ Len(objects[i]) = 1
              /\ [k \in 1..Len(objects[i][1].markets) |->
                     << objects[i][1].markets[k].name,
                        objects[i][1].markets[k].data >>] = StreamMap(ts, 0)
              /\ \A n \in ChildNames(ts) :
                    Cardinality(MarketsNamed(objects[i][1].markets, n)) = 1

\* Market { A=1 B=2 0C=9 A { } }: B is stored by its field and by the
\* repeat, A by its field and by a child object of the same name; A stays
\* first and holds the child's map, B stays second and holds 9.
C38_Witness ==
    \E i \in DOMAIN pc :
        /\ input[i].kind = "markets"
        /\ pc[i] = "returned"
        /\ Tokens(input[i]) = <<<<2, 1, 65, 32, 1>>, <<2, 1, 66, 32, 2>>,
                                <<12, 32, 9>>, <<1, 1, 65>>>>
        /\ StoredAgain(Tokens(input[i]), 0)
        /\ objects[i][1].markets =
              <<Market(<<65>>, PyDict(<<>>)), Market(<<66>>, PyInt(9))>>

----------------------------------------------------------------------------
(* C40: _parse_generic_object_dict of Deserializer and                     *)
(* _parse_generic_object of UnifiedParser, run on the same byte stream.    *)

\* The offset of the value marker of a "field" or "repeat" log entry.
ValueMarkerAt(buf, e) ==
    IF e.op = "field" THEN ReadPos(buf, e.at + 2, buf[e.at + 2]) ELSE e.at + 1
\* The values the Deserializer decoded from a 0x07 marker.
TimestampValues(buf, log) ==
    {k \in 1..Len(log) :
        /\ log[k].op \in {"field", "repeat"}
        /\ ~AtEnd(buf, ValueMarkerAt(buf, log[k]))
        /\ buf[ValueMarkerAt(buf, log[k]) + 1] = 7}
\* What Deserializer._parse_generic_object_dict does on the stream of i.
DictOf(i) == ParseGenericObjectDict(Buf(i), 0, PyNone)
SameOutcome(i, d) ==
    /\ Pos(i) = d.pos
    /\ IF d.exc = "none"
       THEN /\ pc[i] = "returned"
            /\ ret[i].obj = PyDict(d.obj)
            /\ ret[i].last = d.last
       ELSE /\ pc[i] = "raised"
            /\ exc[i] = d.exc

\* C40: run on the same byte stream containing no 0x07 timestamp value,
\* Deserializer._parse_generic_object_dict and
\* UnifiedParser._parse_generic_object return the same ordered map and the
\* same last field name, and leave the cursor at the same position, for
\* every input.
C40_SameObject ==
    \A i \in DOMAIN pc :
        /\ input[i].kind = "uobject"
        /\ pc[i] # "call"
        /\ TimestampValues(Buf(i), DictOf(i).log) = {}
        => SameOutcome(i, DictOf(i))

\* A = 22 01 02 03, then a 0x07 that is no value, then B = 85 ' 8 ': the
\* stream holds a 0x07 and no timestamp value, and both parsers return
\* {A: 197121, B: '8'} and the name B at the end of the stream.
C40_Witness ==
    \E i \in DOMAIN pc :
        /\ input[i] = Whole("uobject", <<<<2, 1, 65, 34, 1, 2, 3>>, <<7>>,
                                         <<2, 1, 66, 133, 32, 56, 32>>>>)
        /\ pc[i] = "returned"
        /\ TimestampValues(Buf(i), DictOf(i).log) = {}
        /\ ret[i].obj = PyDict(<<<<<<65>>, PyInt(197121)>>,
                                 <<<<66>>, PyStr(<<56>>)>>>>)
        /\ ret[i].obj = PyDict(DictOf(i).obj)
        /\ ret[i].last = PyStr(<<66>>)
        /\ Pos(i) = Len(Buf(i))

----------------------------------------------------------------------------
(* UnifiedParser._parse_last_games_list, _parse_hits_object,               *)
(* _parse_info_object and parse of src/final.py.                           *)

\* `int(val_str)`, and on a ValueError `val_str if val_str else 0`.
IntOrStr(val_str) ==
    One({ IF n.exc = "none" THEN PyInt(n.n)
          ELSE IF val_str # <<>> THEN PyStr(val_str) ELSE PyInt(0) :
          n \in {IntOfStr(val_str)} })

RECURSIVE UnifiedGamesLoop(_, _, _, _)

\* The second field of the first item, its marker at offset q: the name,
\* then the bytes up to and including the next 0x00 as the value.
UnifiedFirstDraw(buf, q, name, obj, fn, first) ==
    IF AtEnd(buf, q + 1) THEN ListResult(obj, Len(buf), "IndexError")
    ELSE
    One({ UnifiedGamesLoop(buf, ReadPos(buf, e, 1),
             DictSet(obj, name,
                PyDict(DictSet(DictSet(<<>>, fn, first), fn2,
                          IntOrStr(Strip(DecodeIgnore(SubSeq(buf, r + 1, e))))))),
             <<fn, fn2>>) :
          fn2 \in {DecodeIgnore(ReadBytes(buf, q + 2, buf[q + 2]))},
          r \in {ReadPos(buf, q + 2, buf[q + 2])},
          e \in {ScanUntil(buf, ReadPos(buf, q + 2, buf[q + 2]), {0})} })

\* `if not fields:` the first item declares the two field names; its body
\* starts at offset p.
UnifiedFirstGame(buf, p, name, obj) ==
    IF AtEnd(buf, p + 1) THEN ListResult(obj, Len(buf), "IndexError")
    ELSE
    One({ IF v.exc # "none" THEN ListResult(obj, v.pos, v.exc)
          ELSE UnifiedFirstDraw(buf, v.pos, name, obj, fn, v.val) :
          fn \in {DecodeIgnore(ReadBytes(buf, p + 2, buf[p + 2]))},
          v \in {UnifiedParseValue(buf, ReadPos(buf, p + 2, buf[p + 2]))} })

\* `else:` a later item, 08 value 09 byte and a terminator; the item began
\* at offset pos and its body starts at offset p.
UnifiedLaterGame(buf, pos, p, name, obj, fields) ==
    IF AtEnd(buf, p) \/ buf[p + 1] # 8 THEN ListResult(obj, pos, "none")
    ELSE
    One({ IF v.exc # "none" THEN ListResult(obj, v.pos, v.exc)
          ELSE IF AtEnd(buf, v.pos) \/ buf[v.pos + 1] # 9
          THEN ListResult(obj, pos, "none")
          ELSE IF AtEnd(buf, v.pos + 1)
          THEN ListResult(obj, Len(buf), "IndexError")
          ELSE UnifiedGamesLoop(buf, ReadPos(buf, v.pos + 2, 1),
                  DictSet(obj, name,
                     PyDict(DictSet(DictSet(<<>>, fields[1], v.val), fields[2],
                               PyInt(UnifiedSingleByteValue(buf[v.pos + 2]))))),
                  fields) :
          v \in {UnifiedParseValue(buf, p + 1)} })

UnifiedGamesLoop(buf, at, dict, fieldnames) ==
    One({ IF AtEnd(buf, pos) \/ buf[pos + 1] # 1
          THEN ListResult(obj, pos, "none")
          ELSE IF AtEnd(buf, pos + 1)
          THEN ListResult(obj, Len(buf), "IndexError")
          ELSE
          One({ IF fields = <<>> THEN UnifiedFirstGame(buf, p, name, obj)
                ELSE UnifiedLaterGame(buf, pos, p, name, obj, fields) :
                name \in {DecodeIgnore(ReadBytes(buf, pos + 2, buf[pos + 2]))},
                p \in {ReadPos(buf, pos + 2, buf[pos + 2])} }) :
          pos \in {at}, obj \in {dict}, fields \in {fieldnames} })

UnifiedParseLastGamesList(buf, pos) == UnifiedGamesLoop(buf, pos, <<>>, <<>>)

\* The value of a Hits entry from the bytes before its terminator.
UnifiedHitsValue(value_bytes) ==
    IF value_bytes = <<>> THEN PyInt(0)
    ELSE IF Len(value_bytes) = 1
    THEN PyInt(UnifiedSingleByteValue(value_bytes[1]))
    ELSE One({ IF IntOfStr(val_str).exc = "none"
               THEN PyInt(IntOfStr(val_str).n) ELSE PyStr(val_str) :
               val_str \in {DecodeIgnore(value_bytes)} })

\* The lookahead of _parse_hits_object: the entry at pos is an object whose
\* name, all of it in the buffer, is 'PreviousResults'.
UnifiedHitsEnds(buf, pos) ==
    /\ buf[pos + 1] = 1
    /\ ~AtEnd(buf, pos + 1)
    /\ Len(buf) >= pos + 2 + buf[pos + 2]
    /\ DecodeIgnore(ReadBytes(buf, pos + 2, buf[pos + 2])) = N_PreviousResults

RECURSIVE UnifiedHitsLoop(_, _, _)
UnifiedHitsLoop(buf, at, sofar) ==
    One({ IF AtEnd(buf, pos) \/ buf[pos + 1] = 0
          THEN ListResult(results, pos, "none")
          ELSE IF UnifiedHitsEnds(buf, pos) THEN ListResult(results, pos, "none")
          ELSE IF buf[pos + 1] = 1 /\ AtEnd(buf, pos + 1)
          THEN ListResult(results, Len(buf), "none")
          ELSE
          One({ IF AtEnd(buf, k) \/ buf[k + 1] # 16
                THEN ListResult(results, pos, "none")
                ELSE One({ UnifiedHitsLoop(buf, ReadPos(buf, e, 1),
                              Append(results,
                                 <<key, PyDict(<<<<N_Hits,
                                      UnifiedHitsValue(SubSeq(buf, k + 2, e))>>>>)>>)) :
                           e \in {ScanUntil(buf, k + 1, {0})} }) :
                k \in {IF buf[pos + 1] = 1
                       THEN ReadPos(buf, pos + 2, buf[pos + 2]) ELSE pos + 1},
                key \in {IF buf[pos + 1] = 1
                         THEN DecodeIgnore(ReadBytes(buf, pos + 2, buf[pos + 2]))
                         ELSE DecimalString(Len(results))} }) :
          pos \in {at}, results \in {sofar} })

UnifiedParseHitsObject(buf, pos) == UnifiedHitsLoop(buf, pos, <<>>)

\* What a named child of the info object is decoded by.
UnifiedInfoChild(buf, p, name) ==
    CASE name = N_PreviousResults ->
           ListResult(PyDict(<<>>), ReadPos(buf, p, 1), "none")
      [] name = N_LastGames ->
           One({ ListResult(PyDict(r.val), r.pos, r.exc) :
                 r \in {UnifiedParseLastGamesList(buf, p)} })
      [] name \in {N_Hot, N_Cold} ->
           One({ ListResult(PyDict(r.val), r.pos, r.exc) :
                 r \in {UnifiedParseHotColdList(buf, p)} })
      [] name = N_Hits ->
           One({ ListResult(PyList(r.val), r.pos, r.exc) :
                 r \in {UnifiedParseHitsObject(buf, p)} })
      [] OTHER -> ListResult(PyNone, p, "none")

\* The `while True:` of _parse_info_object.
RECURSIVE UnifiedInfoLoop(_, _, _)
UnifiedInfoLoop(buf, at, dict) ==
    One({ IF AtEnd(buf, pos) THEN ListResult(obj, pos, "none")
          ELSE IF buf[pos + 1] = 0 THEN UnifiedInfoLoop(buf, pos + 1, obj)
          ELSE IF buf[pos + 1] # 1 THEN ListResult(obj, pos, "none")
          ELSE IF AtEnd(buf, pos + 1) THEN ListResult(obj, Len(buf), "IndexError")
          ELSE
          One({ IF c.exc # "none" THEN ListResult(obj, c.pos, c.exc)
                ELSE IF name \in {N_PreviousResults, N_LastGames, N_Hot, N_Cold,
                                  N_Hits}
                THEN UnifiedInfoLoop(buf, c.pos, DictSet(obj, name, c.val))
                ELSE UnifiedInfoLoop(buf, c.pos, obj) :
                name \in {DecodeIgnore(ReadBytes(buf, pos + 2, buf[pos + 2]))},
                c \in {UnifiedInfoChild(buf, ReadPos(buf, pos + 2, buf[pos + 2]),
                          DecodeIgnore(ReadBytes(buf, pos + 2, buf[pos + 2])))} }) :
          pos \in {at}, obj \in {dict} })

\* One of the two leading fields of the info object, its marker at offset
\* p: [name, val, pos, exc].
UnifiedInfoField(buf, p) ==
    IF AtEnd(buf, p + 1)
    THEN [name |-> <<>>, val |-> PyNone, pos |-> Len(buf), exc |-> "IndexError"]
    ELSE One({ [name |-> DecodeIgnore(ReadBytes(buf, p + 2, buf[p + 2])),
                val |-> v.val, pos |-> v.pos, exc |-> v.exc] :
               v \in {UnifiedParseValue(buf, ReadPos(buf, p + 2, buf[p + 2]))} })

UnifiedParseInfoObject(buf, pos) ==
    One({ IF id.exc # "none" THEN ListResult(<<>>, id.pos, id.exc)
          ELSE One({ IF vf.exc # "none" THEN ListResult(<<>>, vf.pos, vf.exc)
                     ELSE UnifiedInfoLoop(buf, vf.pos,
                             DictSet(DictSet(<<>>, id.name, id.val),
                                     vf.name, vf.val)) :
                     vf \in {UnifiedInfoField(buf, id.pos)} }) :
          id \in {UnifiedInfoField(buf, pos)} })

\* What parse prints for a decoded frame: the log header with the ids, and
\* the object.  (Of an event frame whose body raises, the log header alone
\* was printed; it is not kept.)
Printed(obj_type, event_id, info_id, obj) ==
    [type |-> obj_type, event_id |-> event_id, info_id |-> info_id,
     obj |-> PyDict(obj)]

\* UnifiedParser.parse from the cursor `at`, out being what was printed so
\* far: [out, pos, exc].
ParseResult(out, pos, e) == [out |-> out, pos |-> pos, exc |-> e]

RECURSIVE UnifiedParseLoop(_, _, _)

\* The frame whose name length byte is at offset h.
UnifiedNamed(buf, h, id_val, out) ==
    One({ IF name.exc # "none" THEN ParseResult(out, p, name.exc)
          ELSE IF name.s = N_event
          THEN One({ IF r.exc # "none" THEN ParseResult(out, r.pos, r.exc)
                     ELSE UnifiedParseLoop(buf, r.pos,
                             Append(out, Printed("Event", id_val, PyNone, r.obj))) :
                     r \in {UnifiedParseGenericObject(buf, p, PyNone)} })
          ELSE IF name.s = N_info
          THEN One({ IF r.exc # "none" THEN ParseResult(out, r.pos, r.exc)
                     ELSE UnifiedParseLoop(buf, r.pos,
                             Append(out, Printed("Event Info", DictGet(r.val, N_ID),
                                                 id_val, r.val))) :
                     r \in {UnifiedParseInfoObject(buf, p)} })
          ELSE UnifiedParseLoop(buf, p, out) :
          name \in {DecodeStrict(ReadBytes(buf, h + 1, buf[h + 1]))},
          p \in {ReadPos(buf, h + 1, buf[h + 1])} })

UnifiedParseLoop(buf, at, printed) ==
    One({ IF AtEnd(buf, pos) THEN ParseResult(out, pos, "none")
          ELSE IF buf[pos + 1] # 34
          THEN UnifiedParseLoop(buf, ScanUntil(buf, pos, {34}), out)
          ELSE
          One({ IF AtEnd(buf, h) \/ buf[h + 1] # 1
                THEN UnifiedParseLoop(buf, ReadPos(buf, h, 1), out)
                ELSE IF AtEnd(buf, h + 1) THEN ParseResult(out, Len(buf), "none")
                ELSE UnifiedNamed(buf, h + 1,
                        DecodeMultiByteValue(ReadBytes(buf, pos + 1, 3)), out) :
                h \in {ReadPos(buf, pos + 1, 3)} }) :
          pos \in {at}, out \in {printed} })

UnifiedParse(buf) == UnifiedParseLoop(buf, 0, <<>>)

----------------------------------------------------------------------------
(* UnifiedParser(data).parse() on buffers that differ in their 0x20 bytes. *)
(* A buffer is given as solid parts, which hold no 0x20, with a gap of     *)
(* 0x20 bytes before, between and after them: parts = g0 p1 g1 p2 g2 ...   *)

Gaps == {<<>>, <<32>>}

\* The parts of b with the gaps gs around them.
Spaced(b, gs) ==
    [k \in 1..(2 * Len(b) + 1) |->
        IF k % 2 = 1 THEN gs[(k + 1) \div 2] ELSE b[k \div 2]]
\* No 0x20 before the first part and after the last one, and any gaps
\* between the parts.
InnerGaps(b) ==
    {gs \in [1..(Len(b) + 1) -> Gaps] : gs[1] = <<>> /\ gs[Len(b) + 1] = <<>>}
SolidParts(sc) == [k \in 1..(Len(sc.parts) \div 2) |-> sc.parts[2 * k]]

\* event { Duration=20 } cut inside the id, inside the name 'event' and
\* before the value byte 0x14 (with a 0x20 there: the value marker 0x20).
SolidDuration ==
    << <<34, 1>>, <<2, 3, 1, 5, 101, 118>>,
       <<101, 110, 116>> \o Named(2, N_Duration), <<20, 0>> >>
\* event { Time=<timestamp> Number='89' } cut inside the timestamp and
\* inside the digits.
SolidTime ==
    << Frame(<<1, 2, 3>>, N_event, Named(2, N_Time)) \o <<7, 1, 2, 3>>,
       <<4, 5, 6, 0, 0>> \o Named(2, N_Number) \o <<133, 56>>, <<57, 0>> >>
\* info { ID ValidFrom Hits [ 7: ':' , 8: '12' ] PreviousResults } and an
\* event frame, cut inside the id value, inside the name 'Hits' and inside
\* the run of a Hits entry.
SolidInfo ==
    << Frame(<<4, 5, 6>>, N_info, Named(2, N_ID)) \o <<34, 1>>,
       <<2, 3>> \o Named(2, N_ValidFrom) \o <<7, 1, 2, 3, 4, 5, 6, 0, 0, 1, 4, 72>>,
       <<105, 116, 115, 7, 16, 58, 0, 8, 16, 49>>,
       <<50, 0>> \o Named(1, N_PreviousResults) \o <<0>>
          \o Frame(<<7, 8, 9>>, N_event, <<0>>) >>
\* info { ID ValidFrom LastGames [ G { Number=5 Draw='12' } H 08 6 09 ':' ]
\* Hot [ 3 09 '5' 10 '3' ] }, cut inside the Draw run, before the compact
\* item's value and inside the Hot item.
SolidLists ==
    << Frame(<<4, 5, 6>>, N_info, Named(2, N_ID)) \o <<34, 1, 2, 3>>
          \o Named(2, N_ValidFrom) \o <<129, 55, 0>> \o Named(1, N_LastGames)
          \o Named(1, <<71>>) \o Named(2, N_Number) \o <<5>>
          \o Named(2, N_Draw) \o <<49>>,
       <<50, 0>> \o Named(1, <<72>>) \o <<8>>,
       <<6, 9, 58, 0>> \o Named(1, N_Hot) \o <<3, 9>>,
       <<53, 16, 51, 0>> >>
\* junk, a candidate frame start without the object marker, and a frame
\* with another name followed by an event frame
SolidJunk ==
    << <<65, 34, 1, 2>>, <<3, 2, 34>>, <<1, 2, 3>> \o Named(1, N_data),
       Frame(<<1, 2, 3>>, N_event, Named(2, N_Type) \o <<138, 83, 0>>) >>
\* event { A=int('x') }: a ValueError, cut inside the id and in the run;
\* and an event frame that ends in the length byte of a field
SolidBadInt ==
    << <<34, 1>>, <<2, 3>> \o Named(1, N_event) \o <<2, 1, 65, 129>>,
       <<120, 0>> >>
SolidShort ==
    << <<34, 1, 2, 3>>, Named(1, N_event) \o <<2, 1, 65, 3>>, <<2>> >>

SolidBases ==
    {SolidDuration, SolidTime, SolidInfo, SolidLists, SolidJunk, SolidBadInt,
     SolidShort}
SpaceInputs ==
    UNION {{Whole("uparse", Spaced(b, gs)) : gs \in InnerGaps(b)} :
              b \in SolidBases}

InitSpaces == InitAt({1, 2}, SpaceInputs, "call")

\* parser = UnifiedParser(data); parser.parse(): objects is what was
\* printed, also when an exception ended the call.
CallUnifiedParse(i) ==
    /\ Called(i, {"uparse"})
    /\ \E r \in {UnifiedParse(Buf(i))} :
          /\ Outcome(i, PyNone, r.pos, r.exc)
          /\ objects' = [objects EXCEPT ![i] = r.out]
    /\ UNCHANGED <<self, input, trace>>

NextSpaces == \E i \in DOMAIN pc : CallUnifiedParse(i)

SpecSpaces == InitSpaces /\ [][NextSpaces]_vars

\* Two buffers that differ only by inserted or deleted 0x20 bytes.
SameButSpaces(a, b) == SolidParts(a) = SolidParts(b)
Parsed(i) == pc[i] # "call"

\* C39: UnifiedParser decodes a copy of the input from which every 0x20
\* byte has been removed and leaves the caller's buffer unmodified: for any
\* two inputs that differ only by inserted or deleted 0x20 bytes (including
\* 0x20 bytes inside a frame id, a timestamp or a name), parse decodes the
\* same frames with the same values.
C39_SpacesIgnored ==
    /\ \A i \in DOMAIN pc :
          /\ Buf(i) = Concat(SolidParts(input[i]))
          /\ \A k \in 1..Len(Buf(i)) : Buf(i)[k] # 32
    /\ \A i, j \in DOMAIN pc :
          Parsed(i) /\ Parsed(j) /\ SameButSpaces(input[i], input[j])
          => /\ objects[i] = objects[j]
             /\ pc[i] = pc[j]
             /\ exc[i] = exc[j]
             /\ Pos(i) = Pos(j)

\* The frame event { Time Number } given once as it is and once with a
\* 0x20 inside the timestamp and inside the digits of Number: both parsers
\* print the event 197121 with the same Time and Number '89'.
C39_Witness ==
    /\ input[1] = Whole("uparse", Spaced(SolidTime, <<<<>>, <<>>, <<>>, <<>>>>))
    /\ input[2] = Whole("uparse", Spaced(SolidTime, <<<<>>, <<32>>, <<32>>, <<>>>>))
    /\ BufferOf(input[2]) # BufferOf(input[1])
    /\ Parsed(1) /\ Parsed(2)
    /\ objects[1] = objects[2]
    /\ objects[1] =
          <<Printed("Event", PyInt(197121), PyNone,
              <<<<N_Time, TimeString(<<1, 2, 3, 4, 5, 6>>)>>,
                <<N_Number, PyStr(<<56, 57>>)>>>>)>>

====
